---- MODULE Spec2Model ----
(***************************************************************************)
(* MAPAE: phone verification over the carriers' MMS-to-email gateways.     *)
(*                                                                         *)
(* The model covers the in-memory key-value store (storage/memory), the    *)
(* verification service (auth.Service) with its signer, the HTTP handlers  *)
(* (transport/http), the SMTP session handler (transport/smtp) and its     *)
(* parser (nonce scanner, size-limited stream, phone and carrier           *)
(* extraction).  Time is the Unix second the code reads through            *)
(* time.Now().Unix(); identifiers drawn from crypto/rand are modelled as   *)
(* fresh values.                                                           *)
(***************************************************************************)
EXTENDS Integers, Sequences, FiniteSets, TLC

(***************************************************************************)
(* Bounds of the model.                                                    *)
(***************************************************************************)
MaxChallenges == 1      \* InitAuth calls in one behaviour
NumDeliveries == 2      \* concurrent SMTP sessions
MaxTime       == 3      \* last Unix second the clock reaches
MaxRcpts      == 2      \* RCPT TO commands accepted in one session
MaxChunks     == 4      \* Scan calls on one nonceScanner
MaxFill       == 2      \* bytes of text before and after a nonce in a message

(***************************************************************************)
(* Settings (config.Load), lockStripeCount and nonceHexLength, scaled      *)
(* down: the TTLs in seconds of the model clock, the size limit in bytes,  *)
(* the stripes, the hex digits of a nonce, the bytes of a read buffer.     *)
(***************************************************************************)
AuthTTLSeconds     == 2
VerifiedTTLSeconds == 1
ShutdownTimeoutSeconds == 1   \* the 5 seconds main gives server.Shutdown, scaled
DataSizeLimitBytes == 2
lockStripeCount    == 2
nonceHexLength     == 2
bufioSize          == 4

AuthIds    == 1..MaxChallenges
Nonces     == 1..MaxChallenges
Deliveries == 1..NumDeliveries

VARIABLES
    now,        \* time.Now().Unix()
    cache,      \* memory.Client.cache: key -> raw entry
    stripes,    \* memory.Client.stripes: stripe -> holder (0 = unlocked)
    limit,      \* settings.DataSizeLimitBytes
    init,       \* the InitAuth call in progress
    issued,     \* responses returned by InitAuth so far
    settings,   \* config.Settings: SMSInboundAddress, JWTPrivateKeyPEM
    proc,       \* main: the signal, the shared context, the two servers
    reported,   \* history: per auth id, the status CheckAuth last reported
    client,     \* a storage Client call in progress and the last SetEx
    sv,         \* the last direct Service.StoreVerified call
    mime,       \* a MIME message given to the stream scanner and to the legacy parser
    http,       \* the HTTP request being served and its response
    sc,         \* parser.nonceScanner and the bytes fed to it
    lr,         \* a StreamExtractHeaderFromAndNonce call: reader, buffer, result
    extract,    \* an ExtractPhoneAndCarrier call: argument and result
    sess,       \* SMTP sessions: handleData's locals per delivery
    chk,        \* the CheckAuth call in progress
    takes,      \* history: per nonce, Take calls begun while issued and within AuthTTL
    consumed,   \* history: per nonce, Take calls that returned ok
    accepted    \* history: per auth id, the verified records written

vars == <<now, cache, stripes, limit, settings, proc, reported, client, sv, mime, http, sc, lr, extract,
          init, issued, sess, chk, takes, consumed, accepted>>

(***************************************************************************)
(* Strings.  A timestamp and a phone number are sequences (the empty       *)
(* string is <<>>); status, carrier and SMTP replies are TLA+ strings.     *)
(***************************************************************************)
EmptyString == <<>>

\* time.Time.Format(time.RFC3339) of the Unix second t, in UTC
FormatRFC3339(t) == <<"T", t>>

IsRFC3339(s) == Len(s) = 2 /\ s[1] = "T"

(***************************************************************************)
(* Stored values.  A value is a JSON object with the service's fields      *)
(* (json.Marshal drops an omitempty field that is empty, json.Unmarshal    *)
(* reads a missing field as empty), the plain auth_id a nonce entry holds, *)
(* or a text that is not JSON.                                             *)
(***************************************************************************)
JSONObject(status, phone, carrier, timestamp) ==
    [kind |-> "json", ref |-> 0, status |-> status, phone |-> phone,
     carrier |-> carrier, timestamp |-> timestamp]

PlainAuthID(a) ==
    [kind |-> "plain", ref |-> a, status |-> "", phone |-> EmptyString,
     carrier |-> "", timestamp |-> EmptyString]

NotJSON ==
    [kind |-> "plain", ref |-> 0, status |-> "", phone |-> EmptyString,
     carrier |-> "", timestamp |-> EmptyString]

NoValue == NotJSON

\* json.Marshal(AuthPayload{...})
MarshalAuthPayload(status, timestamp) ==
    JSONObject(status, EmptyString, "", timestamp)

\* json.Marshal(VerifiedPayload{...})
MarshalVerifiedPayload(status, phone, carrier, timestamp) ==
    JSONObject(status, phone, carrier, timestamp)

\* json.Unmarshal([]byte(value), &decoded): err != nil
UnmarshalFails(value) == value.kind # "json"

(***************************************************************************)
(* storage/memory: the cache and its entries.                              *)
(***************************************************************************)
AuthKey(a)  == <<"auth", a>>
NonceKey(n) == <<"nonce", n>>

Keys == {AuthKey(a) : a \in AuthIds} \cup {NonceKey(n) : n \in Nonces}

ErrEntryNotFound == [present |-> FALSE, value |-> NoValue, expiresAt |-> 0]

\* c.cache.Get(key)
CacheGet(c, key) == c[key]

\* c.cache.Set(key, payload)
CacheSet(c, key, value, expiresAt) ==
    [c EXCEPT ![key] = [present |-> TRUE, value |-> value, expiresAt |-> expiresAt]]

\* a Delete that leaves the entry in place
CacheDeleteLost(c, key) == c

\* c.cache.Delete(key)
CacheDelete(c, key) == [c EXCEPT ![key] = ErrEntryNotFound]

\* an expiry test that never finds an entry expired
ExpiredNever(e, t) == FALSE

\* an expiry test that is late by one second: now > e.ExpiresAt
ExpiredAfter(e, t) == t > e.expiresAt

\* time.Now().Unix() >= e.ExpiresAt
Expired(e, t) == t >= e.expiresAt

\* a SetEx that ignores the ttl
SetExNoTTL(c, key, value, ttlSeconds, t) == CacheSet(c, key, value, t)

\* a SetEx that keeps the expiry of an entry it overwrites
SetExKeepsExpiry(c, key, value, ttlSeconds, t) ==
    CacheSet(c, key, value,
             IF c[key].present THEN c[key].expiresAt ELSE t + ttlSeconds)

\* Client.SetEx: the entry written for a positive ttl
SetEx(c, key, value, ttlSeconds, t) == CacheSet(c, key, value, t + ttlSeconds)

\* a SetEx that refuses only a negative ttl
SetExFailsNegative(ttlSeconds) == ttlSeconds < 0

\* Client.SetEx: ttlSeconds <= 0 is refused
SetExFails(ttlSeconds) == ttlSeconds <= 0

\* stripeIndex: a nonce key is striped by its leading hex digits
stripeIndex(key) == key[2] % lockStripeCount

\* Take without the stripe lock (the earlier Take: Get, then Delete)
TakeUnlocked(key) == TRUE

\* lock.Lock() can proceed
TakeLockFree(key) == stripes[stripeIndex(key)] = 0

(***************************************************************************)
(* Sender strings.  A sender (envelope MAIL FROM or header From) is a      *)
(* sequence of characters; the sessions hold an index into SenderText.     *)
(***************************************************************************)
VmmsNateCom == <<"v", "m", "m", "s", ".", "n", "a", "t", "e", ".", "c", "o", "m">>
MmsmailUplusCoKr == <<"m", "m", "s", "m", "a", "i", "l", ".", "u", "p", "l", "u", "s", ".", "c", "o", ".", "k", "r">>
MmsKtCoKr == <<"m", "m", "s", ".", "k", "t", ".", "c", "o", ".", "k", "r">>

\* 01012345678@mms.kt.co.kr
SenderKT == <<"0", "1", "0", "1", "2", "3", "4", "5", "6", "7", "8", "@", "m", "m", "s", ".", "k", "t", ".", "c", "o", ".", "k", "r">>
\* "01012345678@mms.kt.co.kr" <x@evil.io>
SenderDisplayName == <<"\"", "0", "1", "0", "1", "2", "3", "4", "5", "6", "7", "8", "@", "m", "m", "s", ".", "k", "t", ".", "c", "o", ".", "k", "r", "\"", " ", "<", "x", "@", "e", "v", "i", "l", ".", "i", "o", ">">>
\* x@evil.io
SenderOther == <<"x", "@", "e", "v", "i", "l", ".", "i", "o">>
\* 010-1234-5678@VMMS.NATE.COM
SenderDashedSKT == <<"0", "1", "0", "-", "1", "2", "3", "4", "-", "5", "6", "7", "8", "@", "V", "M", "M", "S", ".", "N", "A", "T", "E", ".", "C", "O", "M">>
\* x@evil.io, 01012345678@mmsmail.uplus.co.kr
SenderList == <<"x", "@", "e", "v", "i", "l", ".", "i", "o", ",", " ", "0", "1", "0", "1", "2", "3", "4", "5", "6", "7", "8", "@", "m", "m", "s", "m", "a", "i", "l", ".", "u", "p", "l", "u", "s", ".", "c", "o", ".", "k", "r">>
\* KT <01012345678@mms.kt.co.kr>
SenderNamedKT == <<"K", "T", " ", "<", "0", "1", "0", "1", "2", "3", "4", "5", "6", "7", "8", "@", "m", "m", "s", ".", "k", "t", ".", "c", "o", ".", "k", "r", ">">>
\* 01012345678@evil.io
SenderPhoneOther == <<"0", "1", "0", "1", "2", "3", "4", "5", "6", "7", "8", "@", "e", "v", "i", "l", ".", "i", "o">>

\* ---------@mms.kt.co.kr
SenderDashesKT == <<"-", "-", "-", "-", "-", "-", "-", "-", "-", "@", "m", "m", "s", ".", "k", "t", ".", "c", "o", ".", "k", "r">>

SenderText == <<SenderKT, SenderDisplayName, SenderOther, SenderDashedSKT,
                SenderList, SenderNamedKT, SenderPhoneOther, SenderDashesKT,
                EmptyString>>

SenderIds == 1..Len(SenderText)
NoSender  == Len(SenderText)         \* the empty string

LowerCase == <<"a", "b", "c", "d", "e", "f", "g", "h", "i", "j", "k", "l", "m", "n", "o", "p", "q", "r", "s", "t", "u", "v", "w", "x", "y", "z">>
UpperCase == <<"A", "B", "C", "D", "E", "F", "G", "H", "I", "J", "K", "L", "M", "N", "O", "P", "Q", "R", "S", "T", "U", "V", "W", "X", "Y", "Z">>
DigitChars == {"0", "1", "2", "3", "4", "5", "6", "7", "8", "9"}
Range(s) == {s[i] : i \in 1..Len(s)}

\* strings.ToLower
ToLowerChar(c) ==
    IF c \in Range(UpperCase)
    THEN LowerCase[CHOOSE i \in 1..Len(UpperCase) : UpperCase[i] = c]
    ELSE c
ToLower(s) == [i \in 1..Len(s) |-> ToLowerChar(s[i])]

\* a string with surrounding blanks
Padded(s) == <<" ">> \o s \o <<" ">>

\* strings.TrimSpace
TrimSpace(s) ==
    LET keep == {i \in 1..Len(s) : s[i] # " "}
    IN  IF keep = {} THEN EmptyString
        ELSE SubSeq(s, CHOOSE i \in keep : \A j \in keep : i <= j,
                       CHOOSE i \in keep : \A j \in keep : i >= j)

(***************************************************************************)
(* parser.ExtractPhoneAndCarrier and its regular expression                *)
(*     phoneRe = ([0-9-]{9,13})@([A-Za-z0-9.-]+)                           *)
(***************************************************************************)
PhoneMinLen == 9
PhoneMaxLen == 13
PhoneChars  == DigitChars \cup {"-"}
DomainChars == Range(LowerCase) \cup Range(UpperCase) \cup DigitChars \cup {".", "-"}

\* the match of phoneRe that starts at position i, if there is one
PhoneReMatchesAt(s, i, n) ==
    /\ n \in PhoneMinLen..PhoneMaxLen
    /\ i + n + 1 <= Len(s)
    /\ \A j \in i..(i + n - 1) : s[j] \in PhoneChars
    /\ s[i + n] = "@"
    /\ s[i + n + 1] \in DomainChars

\* phoneRe.FindStringSubmatch: the leftmost match, its groups and its extent
PhoneReFind(s) ==
    LET starts == {i \in 1..Len(s) :
                      \E n \in PhoneMinLen..PhoneMaxLen : PhoneReMatchesAt(s, i, n)}
    IN  IF starts = {} THEN [found |-> FALSE, digits |-> EmptyString,
                             domain |-> EmptyString, whole |-> EmptyString]
        ELSE LET i == CHOOSE x \in starts : \A y \in starts : x <= y
                 n == CHOOSE x \in PhoneMinLen..PhoneMaxLen : PhoneReMatchesAt(s, i, x)
                 e == CHOOSE x \in (i + n + 1)..Len(s) :
                          /\ \A j \in (i + n + 1)..x : s[j] \in DomainChars
                          /\ (x = Len(s) \/ s[x + 1] \notin DomainChars)
             IN  [found |-> TRUE, digits |-> SubSeq(s, i, i + n - 1),
                  domain |-> SubSeq(s, i + n + 1, e), whole |-> SubSeq(s, i, e)]

\* a normalizeDigits that keeps the dashes
normalizeKeepDashes(value) == value

\* normalizeDigits
normalizeDigits(value) == SelectSeq(value, LAMBDA c : c \in DigitChars)

\* carrierDomains
carrierDomains(domain) ==
    CASE domain = VmmsNateCom      -> "SKT"
      [] domain = MmsmailUplusCoKr -> "LGU+"
      [] domain = MmsKtCoKr        -> "KT"
      [] OTHER                     -> ""

\* *string results: nil, or a pointer to the string v
NilPhone   == [nil |-> TRUE, v |-> EmptyString]
NilCarrier == [nil |-> TRUE, v |-> ""]
PtrTo(v)   == [nil |-> FALSE, v |-> v]

ExtractPhoneAndCarrier(fromAddress) ==
    IF TrimSpace(fromAddress) = EmptyString THEN
        [phone |-> NilPhone, carrier |-> NilCarrier]
    ELSE LET matches == PhoneReFind(fromAddress)
         IN  IF ~matches.found THEN [phone |-> NilPhone, carrier |-> NilCarrier]
             ELSE LET phone   == normalizeDigits(matches.digits)
                      carrier == carrierDomains(ToLower(matches.domain))
                  IN  IF carrier = "" THEN [phone |-> PtrTo(phone), carrier |-> NilCarrier]
                      ELSE [phone |-> PtrTo(phone), carrier |-> PtrTo(carrier)]

(***************************************************************************)
(* sanitizeSender and net/mail.ParseAddress, which accepts one address:    *)
(* an addr-spec, or an optional display name (words or one quoted string)  *)
(* followed by <addr-spec>.                                                *)
(***************************************************************************)
Positions(s, c) == {i \in 1..Len(s) : s[i] = c}

IsAddrSpec(s) ==
    /\ Cardinality(Positions(s, "@")) = 1
    /\ s[1] # "@"
    /\ s[Len(s)] # "@"
    /\ \A i \in 1..Len(s) : s[i] \notin {" ", ",", "<", ">", "\""}

IsDisplayName(s) ==
    \/ s = EmptyString
    \/ /\ Len(s) >= 2
       /\ s[1] = "\""
       /\ s[Len(s)] = "\""
       /\ \A i \in 2..(Len(s) - 1) : s[i] # "\""
    \/ \A i \in 1..Len(s) : s[i] \notin {"@", ",", "<", ">", "\""}

ParseAddress(s) ==
    LET open == Positions(s, "<")
    IN  IF open = {} THEN
            [ok |-> s # EmptyString /\ IsAddrSpec(s), address |-> s]
        ELSE LET lt   == CHOOSE i \in open : \A j \in open : i >= j
                 addr == SubSeq(s, lt + 1, Len(s) - 1)
             IN  [ok |-> /\ s[Len(s)] = ">"
                         /\ addr # EmptyString
                         /\ IsAddrSpec(addr)
                         /\ IsDisplayName(TrimSpace(SubSeq(s, 1, lt - 1))),
                  address |-> addr]

sanitizeSender(value) ==
    LET trimmed == TrimSpace(value)
        parsed  == ParseAddress(trimmed)
    IN  IF trimmed = EmptyString \/ trimmed = <<"<", ">">> THEN EmptyString
        ELSE IF parsed.ok /\ parsed.address # EmptyString THEN parsed.address
        ELSE trimmed

\* the domain of an address: what follows its last @
DomainOf(address) ==
    LET at == Positions(address, "@")
    IN  IF at = {} THEN EmptyString
        ELSE SubSeq(address, (CHOOSE i \in at : \A j \in at : i >= j) + 1, Len(address))

\* per sender string, computed once
Extracted == [i \in SenderIds |-> ExtractPhoneAndCarrier(SenderText[i])]
Sanitized == [i \in SenderIds |-> sanitizeSender(SenderText[i])]
MatchedBy == [i \in SenderIds |-> PhoneReFind(SenderText[i])]

(***************************************************************************)
(* transport/smtp: the session and the results of the SPF collaborator.    *)
(***************************************************************************)
\* spf.Result values the check can return; handleData compares a result with
\* Pass and TempError only, so softfail and neutral are handled as fail is
SPFOutcomes == {"pass", "fail", "none", "temperror", "permerror"}
NotEvaluated == ""          \* the zero spf.Result


\* no RCPT TO has been answered: the last call's argument, its SMTP error
\* code (0 is a nil error) and the recipient list it found
NoRcpt == [called |-> FALSE, to |-> EmptyString, code |-> 0, before |-> <<>>]

NewSessionState ==
    [pc |-> "new", peerKnown |-> FALSE, mailFrom |-> NoSender, headerFrom |-> NoSender,
     size |-> 0, envResult |-> NotEvaluated, hdrResult |-> NotEvaluated,
     envSPFOK |-> FALSE, hdrSPFOK |-> FALSE, src |-> "none",
     phone |-> NilPhone, carrier |-> NilCarrier, nonce |-> 0,
     taken |-> NoValue, ok |-> FALSE, authID |-> 0,
     takeLive |-> FALSE, takeFirst |-> FALSE, takeAfter |-> FALSE,
     stored |-> FALSE, result |-> "fail", reply |-> "", storeErr |-> "",
     rcptTos |-> <<>>, rcpt |-> NoRcpt]

ClosedSession == [NewSessionState EXCEPT !.pc = "closed"]

(***************************************************************************)
(* The texts InitAuth makes: randomHex is hex.EncodeToString of random     *)
(* bytes; a request carries any string.                                    *)
(***************************************************************************)
authIDLen == 32
HexDigits == <<"0", "1", "2", "3", "4", "5", "6", "7", "8", "9", "a", "b", "c", "d", "e", "f">>
HexChars  == Range(HexDigits) \cup {"A", "B", "C", "D", "E", "F"}
Repeat(c, n) == [i \in 1..n |-> c]

\* an encoder that writes the digits above nine in upper case
EncodeToStringUpper(buf) ==
    LET upper == <<"0", "1", "2", "3", "4", "5", "6", "7", "8", "9",
                   "A", "B", "C", "D", "E", "F">>
    IN  [i \in 1..(2 * Len(buf)) |->
            IF i % 2 = 1 THEN upper[(buf[(i + 1) \div 2] \div 16) + 1]
            ELSE upper[(buf[i \div 2] % 16) + 1]]

\* hex.EncodeToString(buf): two lower-case digits a byte, high nibble first
EncodeToString(buf) ==
    [i \in 1..(2 * Len(buf)) |->
        IF i % 2 = 1 THEN HexDigits[(buf[(i + 1) \div 2] \div 16) + 1]
        ELSE HexDigits[(buf[i \div 2] % 16) + 1]]

\* the k-th buffer rand.Read fills: bytes 0xAB, 0x00, ..., 0x00, k
randomBytes(bytesLen, k) ==
    [i \in 1..bytesLen |-> IF i = bytesLen THEN k ELSE IF i = 1 THEN 171 ELSE 0]

\* randomHex(bytesLen), bytesLen > 0
randomHex(bytesLen, k) == EncodeToString(randomBytes(bytesLen, k))

authIDBytes == 16
nonceBytes  == 32

\* the text of the a-th auth_id and of the n-th nonce
AuthIDText(a) == randomHex(authIDBytes, a)
NonceText(n)  == randomHex(nonceBytes, n)

\* fmt.Sprintf("[MAPAE:%s]", nonce)
smsBody(nonce) == <<"[", "M", "A", "P", "A", "E", ":">> \o nonce \o <<"]">>

\* fmt.Sprintf("sms:%s?body=%s", s.settings.SMSInboundAddress, smsBody)
Link(inboundAddress, body) ==
    <<"s", "m", "s", ":">> \o inboundAddress \o <<"?", "b", "o", "d", "y", "=">> \o body

\* &AuthInitResponse{...}
AuthInitResponse(authID, nonce, s) ==
    [AuthID |-> authID, SMSBody |-> smsBody(nonce),
     Link |-> Link(s.SMSInboundAddress, smsBody(nonce)),
     TTLSeconds |-> AuthTTLSeconds]

NoInitResponse ==
    [AuthID |-> EmptyString, SMSBody |-> EmptyString, Link |-> EmptyString,
     TTLSeconds |-> 0]

(***************************************************************************)
(* Initial state.                                                          *)
(***************************************************************************)
NoRecord  == [n |-> 0, at |-> 0, phone |-> EmptyString, carrier |-> ""]
IdleInit  == [pc |-> "idle", authID |-> 0, nonce |-> 0, at |-> 0,
              resp |-> NoInitResponse]
IdleCheck == [pc |-> "idle", authID |-> 0, status |-> "", phone |-> EmptyString,
              carrier |-> "", timestamp |-> EmptyString, err |-> FALSE,
              at |-> 0, known |-> FALSE, acc |-> NoRecord]

\* config.Load with no environment variable set
VerifyExampleCom == <<"v", "e", "r", "i", "f", "y", "@", "e", "x", "a", "m", "p", "l", "e", ".", "c", "o", "m">>
DefaultSettings ==
    [SMSInboundAddress |-> VerifyExampleCom, JWTPrivateKeyPEM |-> EmptyString]

\* no HTTP request is being served
IdleRequest ==
    [pc |-> "idle", route |-> "", id |-> EmptyString, code |-> 0,
     status |-> "", phone |-> EmptyString, token |-> EmptyString,
     detail |-> "", storeOps |-> 0, value |-> NoValue, found |-> FALSE]

\* newNonceScanner(), before any byte
NewNonceScanner ==
    [state |-> 0, digits |-> EmptyString, found |-> EmptyString,
     fed |-> EmptyString, calls |-> 0]

\* no StreamExtractHeaderFromAndNonce call is running: the unread source r,
\* the countingLimitReader (limit, n), the bufio.Reader over it (buf, berr)
\* and the call's error
IdleStream ==
    [pc |-> "idle", r |-> EmptyString, size |-> 0, limit |-> 0, n |-> 0,
     buf |-> EmptyString, berr |-> "", err |-> "", nonce |-> EmptyString]
\* no ExtractPhoneAndCarrier call has returned
IdleParse ==
    [pc |-> "idle", fromAddress |-> EmptyString, phone |-> NilPhone,
     carrier |-> NilCarrier]

\* no message has been parsed
NoParse == [headerFrom |-> EmptyString, nonce |-> EmptyString, err |-> "",
            pos |-> 0, scanned |-> EmptyString]
IdleMime == [pc |-> "idle", msg |-> <<>>, limit |-> 0, size |-> 0,
             stream |-> NoParse, legacy |-> NoParse]

\* Service.StoreVerified has not been called directly
NoStoreVerified ==
    [called |-> FALSE, authID |-> 0, phone |-> NilPhone, carrier |-> NilCarrier,
     prev |-> ErrEntryNotFound, next |-> ErrEntryNotFound, at |-> 0,
     err |-> FALSE]

\* no storage call is in progress and no SetEx has been made
NoSetEx == [called |-> FALSE, key |-> <<"", 0>>, ttl |-> 0, err |-> FALSE,
            had |-> FALSE]
IdleClient ==
    [pc |-> "idle", op |-> "", key |-> <<"", 0>>, raw |-> ErrEntryNotFound,
     at |-> 0, ok |-> FALSE, value |-> NoValue, err |-> FALSE, set |-> NoSetEx]

\* main has started both servers and waits for a signal
ProcessRunning ==
    [main |-> "waiting", signal |-> "", ctx |-> "live", smtp |-> "listening",
     http |-> "serving", inflight |-> 0, deadline |-> 0]

NoRequests ==
    /\ proc = ProcessRunning
    /\ client = IdleClient
    /\ sv = NoStoreVerified
    /\ mime = IdleMime
    /\ http = IdleRequest
    /\ sc = NewNonceScanner
    /\ lr = IdleStream
    /\ extract = IdleParse

NoHistory ==
    /\ takes = [n \in Nonces |-> 0]
    /\ consumed = [n \in Nonces |-> 0]
    /\ accepted = [a \in AuthIds |-> NoRecord]
    /\ reported = [a \in AuthIds |-> ""]

Init ==
    /\ now = 0
    /\ cache = [k \in Keys |-> ErrEntryNotFound]
    /\ stripes = [s \in 0..(lockStripeCount - 1) |-> 0]
    /\ limit = DataSizeLimitBytes
    /\ init = IdleInit
    /\ issued = {}
    /\ sess = [d \in Deliveries |-> NewSessionState]
    /\ chk = IdleCheck
    /\ settings = DefaultSettings
    /\ NoRequests
    /\ NoHistory

(***************************************************************************)
(* The clock.                                                              *)
(***************************************************************************)
Tick ==
    /\ now < MaxTime
    /\ now' = now + 1
    /\ UNCHANGED <<cache, stripes, limit, settings, proc, reported, client, sv, mime, http, sc, lr, extract,
                   init, issued, sess, chk,
                   takes, consumed, accepted>>

(***************************************************************************)
(* Service.InitAuth: two SetEx calls, the auth entry first.                *)
(***************************************************************************)
\* an InitAuth that goes on to the nonce entry without writing the auth entry
InitAuthBeginNoWrite ==
    /\ init.pc = "idle"
    /\ Cardinality(issued) < MaxChallenges
    /\ init' = [pc |-> "nonce", authID |-> Cardinality(issued) + 1,
                nonce |-> Cardinality(issued) + 1, at |-> now,
                resp |-> NoInitResponse]
    /\ UNCHANGED <<now, cache, stripes, limit, settings, proc, reported, client, sv, mime, http, sc, lr,
                   extract, issued, sess, chk, takes, consumed, accepted>>

InitAuthBegin ==
    /\ init.pc = "idle"
    /\ Cardinality(issued) < MaxChallenges
    /\ LET fresh == Cardinality(issued) + 1
           payloadJSON == MarshalAuthPayload("pending", FormatRFC3339(now))
       IN  /\ cache' = SetEx(cache, AuthKey(fresh), payloadJSON, AuthTTLSeconds, now)
           /\ init' = [pc |-> "nonce", authID |-> fresh, nonce |-> fresh, at |-> now,
                        resp |-> NoInitResponse]
    /\ UNCHANGED <<now, stripes, limit, settings, proc, reported, client, sv, mime, http, sc, lr, extract,
                   issued, sess, chk, takes, consumed, accepted>>

InitAuthNonce ==
    /\ init.pc = "nonce"
    /\ cache' = SetEx(cache, NonceKey(init.nonce), PlainAuthID(init.authID),
                      AuthTTLSeconds, now)
    /\ issued' = issued \cup {[authID |-> init.authID, nonce |-> init.nonce,
                               authAt |-> init.at, nonceAt |-> now]}
    /\ init' = [IdleInit EXCEPT !.resp =
                    AuthInitResponse(AuthIDText(init.authID), NonceText(init.nonce),
                                     settings)]
    /\ UNCHANGED <<now, stripes, limit, settings, proc, reported, client, sv, mime, http, sc, lr, extract,
                   sess, chk, takes, consumed, accepted>>

(***************************************************************************)
(* Service.CheckAuth over Client.Get.  Get reads the cache and, when the   *)
(* entry it read has expired, deletes the key in a second cache call.      *)
(***************************************************************************)
WaitingResponse ==
    [status |-> "waiting", phone |-> EmptyString, carrier |-> "",
     timestamp |-> EmptyString, err |-> FALSE]

ExpiredResponse ==
    [status |-> "expired", phone |-> EmptyString, carrier |-> "",
     timestamp |-> EmptyString, err |-> FALSE]

\* a CheckAuth that fails the request on a payload it cannot parse
CheckAuthStrict(value) ==
    IF UnmarshalFails(value) THEN [ExpiredResponse EXCEPT !.err = TRUE]
    ELSE IF value.status = "verified" THEN
        [status |-> value.status, phone |-> value.phone, carrier |-> value.carrier,
         timestamp |-> value.timestamp, err |-> FALSE]
    ELSE WaitingResponse

\* CheckAuth once Get has returned a value
CheckAuthResponse(value) ==
    IF UnmarshalFails(value) THEN WaitingResponse
    ELSE IF value.status = "verified" THEN
        [status |-> value.status, phone |-> value.phone, carrier |-> value.carrier,
         timestamp |-> value.timestamp, err |-> FALSE]
    ELSE WaitingResponse

CheckResult(call, resp) ==
    [pc |-> "done", authID |-> call.authID, status |-> resp.status,
     phone |-> resp.phone, carrier |-> resp.carrier, timestamp |-> resp.timestamp,
     err |-> resp.err, at |-> call.at, known |-> call.known, acc |-> call.acc]

CheckAuthGet(a) ==
    /\ chk.pc = "idle"
    /\ LET raw  == CacheGet(cache, AuthKey(a))
           call == [IdleCheck EXCEPT !.authID = a, !.at = now,
                                     !.known = \E r \in issued : r.authID = a,
                                     !.acc = accepted[a]]
       IN  IF ~raw.present THEN
               chk' = CheckResult(call, ExpiredResponse)
           ELSE IF Expired(raw, now) THEN
               chk' = [call EXCEPT !.pc = "delete"]
           ELSE
               chk' = CheckResult(call, CheckAuthResponse(raw.value))
    /\ UNCHANGED <<now, cache, stripes, limit, settings, proc, reported, client, sv, mime, http, sc, lr, extract,
                   init, issued, sess,
                   takes, consumed, accepted>>

CheckAuthDelete ==
    /\ chk.pc = "delete"
    /\ cache' = CacheDelete(cache, AuthKey(chk.authID))
    /\ chk' = CheckResult(chk, ExpiredResponse)
    /\ UNCHANGED <<now, stripes, limit, settings, proc, reported, client, sv, mime, http, sc, lr, extract,
                   init, issued, sess, takes, consumed, accepted>>

CheckAuthReturn ==
    /\ chk.pc = "done"
    /\ chk' = IdleCheck
    /\ UNCHANGED <<now, cache, stripes, limit, settings, proc, reported, client, sv, mime, http, sc, lr, extract,
                   init, issued, sess,
                   takes, consumed, accepted>>

(***************************************************************************)
(* storage/memory.Client called directly: SetEx in one step, Get and Take  *)
(* in the two cache calls they make.                                       *)
(***************************************************************************)
\* the stripe holder of a direct Take
ClientHolder == NumDeliveries + 1

ClientReturned(call, ok, value) ==
    [call EXCEPT !.pc = "done", !.ok = ok, !.value = value, !.err = FALSE]

\* Client.SetEx
ClientSetEx(key, value, ttlSeconds) ==
    /\ cache' = IF SetExFails(ttlSeconds) THEN cache
                ELSE SetEx(cache, key, value, ttlSeconds, now)
    /\ client' = [client EXCEPT !.set = [called |-> TRUE, key |-> key,
                                          ttl |-> ttlSeconds,
                                          err |-> SetExFails(ttlSeconds),
                                          had |-> cache[key].present]]
    /\ UNCHANGED <<now, stripes, limit, settings, proc, reported, sv, mime, http, sc, lr, extract,
                   init, issued, sess, chk, takes, consumed, accepted>>

\* Client.Get: c.cache.Get and the expiry test
ClientGet(key) ==
    /\ client.pc = "idle"
    /\ LET raw  == CacheGet(cache, key)
           call == [client EXCEPT !.op = "Get", !.key = key, !.raw = raw, !.at = now]
       IN  client' = IF ~raw.present THEN ClientReturned(call, FALSE, NoValue)
                     ELSE IF Expired(raw, now) THEN [call EXCEPT !.pc = "get-delete"]
                     ELSE ClientReturned(call, TRUE, raw.value)
    /\ UNCHANGED <<now, cache, stripes, limit, settings, proc, reported, sv, mime, http, sc, lr, extract,
                   init, issued, sess, chk, takes, consumed, accepted>>

\* Client.Get: c.cache.Delete of the entry found expired
ClientGetDelete ==
    /\ client.pc = "get-delete"
    /\ cache' = CacheDelete(cache, client.key)
    /\ client' = ClientReturned(client, FALSE, NoValue)
    /\ UNCHANGED <<now, stripes, limit, settings, proc, reported, sv, mime, http, sc, lr, extract,
                   init, issued, sess, chk, takes, consumed, accepted>>

\* Client.Take: lock, c.cache.Get and the expiry test
ClientTake(key) ==
    /\ client.pc = "idle"
    /\ TakeLockFree(key)
    /\ LET raw  == CacheGet(cache, key)
           call == [client EXCEPT !.op = "Take", !.key = key, !.raw = raw, !.at = now]
       IN  IF ~raw.present THEN
               /\ client' = ClientReturned(call, FALSE, NoValue)
               /\ UNCHANGED <<cache, stripes>>
           ELSE IF Expired(raw, now) THEN
               /\ cache' = CacheDelete(cache, key)
               /\ client' = ClientReturned(call, FALSE, NoValue)
               /\ UNCHANGED stripes
           ELSE
               /\ stripes' = [stripes EXCEPT ![stripeIndex(key)] = ClientHolder]
               /\ client' = [call EXCEPT !.pc = "take-delete"]
               /\ UNCHANGED cache
    /\ UNCHANGED <<now, limit, settings, proc, reported, sv, mime, http, sc, lr, extract,
                   init, issued, sess, chk, takes, consumed, accepted>>

\* Client.Take: c.cache.Delete, unlock, return the value
ClientTakeDelete ==
    /\ client.pc = "take-delete"
    /\ cache' = CacheDelete(cache, client.key)
    /\ stripes' = [stripes EXCEPT ![stripeIndex(client.key)] = 0]
    /\ client' = ClientReturned(client, TRUE, client.raw.value)
    /\ UNCHANGED <<now, limit, settings, proc, reported, sv, mime, http, sc, lr, extract,
                   init, issued, sess, chk, takes, consumed, accepted>>

ClientReturn ==
    /\ client.pc = "done"
    /\ client' = [IdleClient EXCEPT !.set = client.set]
    /\ UNCHANGED <<now, cache, stripes, limit, settings, proc, reported, sv, mime, http, sc, lr, extract,
                   init, issued, sess, chk, takes, consumed, accepted>>

(***************************************************************************)
(* The format check of a request's auth_id.                                *)
(***************************************************************************)
\* a pattern that lets every string through
authIDReAny(authID) == TRUE

\* authIDRe.MatchString(authID), authIDRe = ^[0-9a-fA-F]{32}$
authIDRe(authID) ==
    /\ Len(authID) = authIDLen
    /\ \A i \in 1..Len(authID) : authID[i] \in HexChars

\* fmt.Sprintf("auth:%s", authID): the key of an issued id, or a key no
\* SetEx has written
AuthKeyOfText(authID) ==
    IF \E a \in AuthIds : AuthIDText(a) = authID
    THEN AuthKey(CHOOSE a \in AuthIds : AuthIDText(a) = authID)
    ELSE AuthKey(0)

\* Client.Get in one step: value, ok, and the cache it leaves behind
Get(c, key, t) ==
    LET raw == IF key \in DOMAIN c THEN CacheGet(c, key) ELSE ErrEntryNotFound
    IN  IF ~raw.present THEN [ok |-> FALSE, value |-> NoValue, cache |-> c]
        ELSE IF Expired(raw, t) THEN
            [ok |-> FALSE, value |-> NoValue, cache |-> CacheDelete(c, key)]
        ELSE [ok |-> TRUE, value |-> raw.value, cache |-> c]

(***************************************************************************)
(* The signer and the service calls of the HTTP surface.                   *)
(***************************************************************************)
ErrInvalidAuthID   == "invalid_auth_id"
ErrJWKSUnavailable == "jwks_unavailable"

NilSigner == [configured |-> FALSE]
PrivateKeyPEM == <<"P", "E", "M">>

\* newJWTSigner: no signer when no private key is configured
newJWTSigner(s) ==
    IF s.JWTPrivateKeyPEM # EmptyString THEN [configured |-> TRUE] ELSE NilSigner

\* jwtSigner.Sign: a signed token carrying the claims
Sign(authID, phoneNumber, carrier, jti) == <<"jwt", authID, phoneNumber, carrier, jti>>

\* the return of a service call: err (nil is ""), the response, the number
\* of store calls made, and the cache afterwards
ServiceReturn(err, resp, token, storeOps, c) ==
    [err |-> err, status |-> resp.status, phone |-> resp.phone,
     carrier |-> resp.carrier, timestamp |-> resp.timestamp, token |-> token,
     storeOps |-> storeOps, cache |-> c]

NilResponse ==
    [status |-> "", phone |-> EmptyString, carrier |-> "",
     timestamp |-> EmptyString, err |-> TRUE]

\* Service.CheckAuth
CheckAuth(c, authID, t) ==
    IF ~authIDRe(authID) THEN
        ServiceReturn(ErrInvalidAuthID, NilResponse, EmptyString, 0, c)
    ELSE
        LET g == Get(c, AuthKeyOfText(authID), t)
        IN  IF ~g.ok THEN ServiceReturn("", ExpiredResponse, EmptyString, 1, g.cache)
            ELSE ServiceReturn("", CheckAuthResponse(g.value), EmptyString, 1, g.cache)

\* a CheckSigned that signs whatever phone the verified record holds
CheckSignedAnyPhone(c, authID, t, signer) ==
    IF ~authIDRe(authID) THEN
        ServiceReturn(ErrInvalidAuthID, NilResponse, EmptyString, 0, c)
    ELSE
        LET g == Get(c, AuthKeyOfText(authID), t)
        IN  IF ~g.ok THEN ServiceReturn("", ExpiredResponse, EmptyString, 1, g.cache)
            ELSE IF UnmarshalFails(g.value) \/ g.value.status # "verified" THEN
                ServiceReturn("", WaitingResponse, EmptyString, 1, g.cache)
            ELSE IF ~signer.configured THEN
                ServiceReturn(ErrJWKSUnavailable, NilResponse, EmptyString, 1, g.cache)
            ELSE
                ServiceReturn("", CheckAuthResponse(g.value),
                              Sign(authID, g.value.phone, g.value.carrier, authID),
                              1, g.cache)

\* Service.CheckSigned
CheckSigned(c, authID, t, signer) ==
    IF ~authIDRe(authID) THEN
        ServiceReturn(ErrInvalidAuthID, NilResponse, EmptyString, 0, c)
    ELSE
        LET g == Get(c, AuthKeyOfText(authID), t)
        IN  IF ~g.ok THEN ServiceReturn("", ExpiredResponse, EmptyString, 1, g.cache)
            ELSE IF UnmarshalFails(g.value) THEN
                ServiceReturn("", WaitingResponse, EmptyString, 1, g.cache)
            ELSE IF g.value.status # "verified" THEN
                ServiceReturn("", WaitingResponse, EmptyString, 1, g.cache)
            ELSE IF ~signer.configured THEN
                ServiceReturn(ErrJWKSUnavailable, NilResponse, EmptyString, 1, g.cache)
            ELSE IF g.value.phone = EmptyString THEN
                ServiceReturn("", WaitingResponse, EmptyString, 1, g.cache)
            ELSE
                ServiceReturn("", CheckAuthResponse(g.value),
                              Sign(authID, g.value.phone, g.value.carrier, authID),
                              1, g.cache)

\* jwtSigner.JWKS: the JSON key set
JWKSBody == <<"{", "keys", "}">>

\* Service.JWKS
JWKS(signer) ==
    IF ~signer.configured THEN [err |-> ErrJWKSUnavailable, body |-> EmptyString]
    ELSE [err |-> "", body |-> JWKSBody]

(***************************************************************************)
(* The HTTP handlers.  A handler runs to its response in one step; the     *)
(* request sees the store as the Get of the service call finds it.         *)
(***************************************************************************)
StatusOK                 == 200
StatusBadRequest         == 400
StatusServiceUnavailable == 503

\* what the request finds under its id when it is served
Served(route, id, authID, code, r) ==
    LET key == AuthKeyOfText(authID)
        e   == IF key \in DOMAIN cache THEN cache[key] ELSE ErrEntryNotFound
    IN  [pc |-> "done", route |-> route, id |-> id, code |-> code,
         status |-> r.status, phone |-> r.phone, token |-> r.token,
         detail |-> r.err, storeOps |-> r.storeOps,
         value |-> e.value, found |-> e.present /\ now < e.expiresAt]

\* the status code of a JWT route that treats a missing signer as a bad request
SignedStatusBadRequest(err) == IF err = "" THEN StatusOK ELSE StatusBadRequest

\* the status code of a JWT route: 503 when the signer is unavailable
SignedStatus(err) ==
    IF err = "" THEN StatusOK
    ELSE IF err = ErrInvalidAuthID THEN StatusBadRequest
    ELSE StatusServiceUnavailable

\* a direct call of Service.CheckAuth
CallCheckAuth(id) ==
    /\ http.pc = "idle"
    /\ LET r == CheckAuth(cache, id, now)
       IN  /\ http' = Served("CheckAuth", id, id, 0, r)
           /\ cache' = r.cache
    /\ UNCHANGED <<now, stripes, limit, settings, proc, reported, client, sv, mime, sc, lr, extract,
                   init, issued, sess, chk, takes, consumed, accepted>>

\* a direct call of Service.CheckSigned
CallCheckSigned(id) ==
    /\ http.pc = "idle"
    /\ LET r == CheckSigned(cache, id, now, newJWTSigner(settings))
       IN  /\ http' = Served("CheckSigned", id, id, 0, r)
           /\ cache' = r.cache
    /\ UNCHANGED <<now, stripes, limit, settings, proc, reported, client, sv, mime, sc, lr, extract,
                   init, issued, sess, chk, takes, consumed, accepted>>

\* a direct call of Service.JWKS
CallJWKS ==
    /\ http.pc = "idle"
    /\ LET r == JWKS(newJWTSigner(settings))
       IN  http' = [IdleRequest EXCEPT !.pc = "done", !.route = "JWKS",
                                       !.detail = r.err, !.token = r.body]
    /\ UNCHANGED <<now, cache, stripes, limit, settings, proc, reported, client, sv, mime, sc, lr, extract,
                   init, issued, sess, chk, takes, consumed, accepted>>

\* GET /auth/check/:auth_id
authCheckHandler(id) ==
    /\ http.pc = "idle"
    /\ LET authID == TrimSpace(id)
           r == CheckAuth(cache, authID, now)
       IN  IF authID = EmptyString THEN
               /\ http' = [IdleRequest EXCEPT !.pc = "done", !.route = "/auth/check",
                                               !.id = id, !.code = StatusBadRequest]
               /\ UNCHANGED cache
           ELSE
               /\ http' = Served("/auth/check", id, authID,
                                 IF r.err = ErrInvalidAuthID THEN StatusBadRequest
                                 ELSE StatusOK, r)
               /\ cache' = r.cache
    /\ UNCHANGED <<now, stripes, limit, settings, proc, reported, client, sv, mime, sc, lr, extract,
                   init, issued, sess, chk, takes, consumed, accepted>>

\* GET /auth/check-signed/:auth_id
authCheckSignedHandler(id) ==
    /\ http.pc = "idle"
    /\ LET authID == TrimSpace(id)
           r == CheckSigned(cache, authID, now, newJWTSigner(settings))
       IN  IF authID = EmptyString THEN
               /\ http' = [IdleRequest EXCEPT !.pc = "done",
                                               !.route = "/auth/check-signed",
                                               !.id = id, !.code = StatusBadRequest]
               /\ UNCHANGED cache
           ELSE
               /\ http' = Served("/auth/check-signed", id, authID, SignedStatus(r.err), r)
               /\ cache' = r.cache
    /\ UNCHANGED <<now, stripes, limit, settings, proc, reported, client, sv, mime, sc, lr, extract,
                   init, issued, sess, chk, takes, consumed, accepted>>

\* GET /.well-known/jwks.json
jwksHandler ==
    /\ http.pc = "idle"
    /\ LET r == JWKS(newJWTSigner(settings))
       IN  http' = [IdleRequest EXCEPT !.pc = "done", !.route = "/.well-known/jwks.json",
                                       !.code = SignedStatus(r.err),
                                       !.detail = r.err, !.token = r.body]
    /\ UNCHANGED <<now, cache, stripes, limit, settings, proc, reported, client, sv, mime, sc, lr, extract,
                   init, issued, sess, chk, takes, consumed, accepted>>

\* the response has been written
Respond ==
    /\ http.pc = "done"
    /\ http' = IdleRequest
    /\ UNCHANGED <<now, cache, stripes, limit, settings, proc, reported, client, sv, mime, sc, lr, extract,
                   init, issued, sess, chk, takes, consumed, accepted>>

(***************************************************************************)
(* backend.NewSession, session.Mail, session.Data and session.Logout.      *)
(***************************************************************************)
NewSession(d, known) ==
    /\ sess[d].pc = "new"
    \* sessions are numbered in the order they reach the nonce lookup: the
    \* steps before it read and write nothing but the session itself
    /\ \A e \in Deliveries : e < d => sess[e].pc \notin {"new", "open", "mail"}
    /\ sess' = [sess EXCEPT ![d].pc = "open", ![d].peerKnown = known]
    /\ UNCHANGED <<now, cache, stripes, limit, settings, proc, reported, client, sv, mime, http, sc, lr, extract,
                   init, issued, chk,
                   takes, consumed, accepted>>

Mail(d, from) ==
    /\ sess[d].pc = "open"
    /\ sess' = [sess EXCEPT ![d].pc = "mail",
                            ![d].mailFrom = CHOOSE i \in SenderIds :
                                                SenderText[i] = TrimSpace(SenderText[from])]
    /\ UNCHANGED <<now, cache, stripes, limit, settings, proc, reported, client, sv, mime, http, sc, lr, extract,
                   init, issued, chk,
                   takes, consumed, accepted>>

\* an RCPT TO check that compares the addresses as they are written
RcptErrorExact(inboundAddress, to) ==
    LET inbound == TrimSpace(inboundAddress)
    IN  IF inbound # EmptyString /\ TrimSpace(to) # inbound THEN 550 ELSE 0

\* session.Rcpt: the code of the SMTP error it returns, 0 for nil
RcptError(inboundAddress, to) ==
    LET inbound == ToLower(TrimSpace(inboundAddress))
    IN  IF inbound # EmptyString /\ ToLower(TrimSpace(to)) # inbound THEN 550 ELSE 0

Rcpt(d, to) ==
    /\ sess[d].pc = "mail"
    /\ Len(sess[d].rcptTos) < MaxRcpts
    /\ LET code == RcptError(settings.SMSInboundAddress, to)
           call == [called |-> TRUE, to |-> to, code |-> code,
                    before |-> sess[d].rcptTos]
       IN  sess' = [sess EXCEPT ![d].rcpt = call,
                                ![d].rcptTos = IF code = 0 THEN Append(@, to) ELSE @]
    /\ UNCHANGED <<now, cache, stripes, limit, settings, proc, reported, client, sv, mime, http, sc, lr, extract,
                   init, issued, chk, takes, consumed, accepted>>

\* session.Reset
Reset(d) ==
    /\ sess[d].pc = "mail"
    /\ sess' = [sess EXCEPT ![d].pc = "open", ![d].mailFrom = NoSender,
                            ![d].rcptTos = <<>>, ![d].rcpt = NoRcpt]
    /\ UNCHANGED <<now, cache, stripes, limit, settings, proc, reported, client, sv, mime, http, sc, lr, extract,
                   init, issued, chk, takes, consumed, accepted>>

\* a readData that counts a stream of exactly `lim` bytes as over the limit
readDataInclusive(size, lim) ==
    IF lim <= 0 THEN [len |-> size, overLimit |-> FALSE]
    ELSE IF size >= lim THEN [len |-> lim, overLimit |-> TRUE]
    ELSE [len |-> size, overLimit |-> FALSE]

\* readData: what is read of a stream of `size` bytes, and whether it is over the limit
readData(size, lim) ==
    IF lim <= 0 THEN [len |-> size, overLimit |-> FALSE]
    ELSE IF size > lim THEN [len |-> lim, overLimit |-> TRUE]
    ELSE [len |-> size, overLimit |-> FALSE]

Reject(s, reply) == [s EXCEPT !.pc = "done", !.reply = reply]

\* an SPF rejection that does not tell a temporary error apart
SPFRejectPermanent(envResult, hdrResult) == "550 SPF fail"

\* the reply of handleData when the peer IP is known and neither SPF check passed
SPFReject(envResult, hdrResult) ==
    IF envResult = "temperror" \/ hdrResult = "temperror"
    THEN "451 SPF temperror"
    ELSE "550 SPF fail"

\* a selection that prefers the header From
SelectSenderHeaderFirst(env, hdr, peerKnown, envSPFOK, hdrSPFOK) ==
    IF ~hdr.carrier.nil /\ (~peerKnown \/ hdrSPFOK) THEN "hdr"
    ELSE IF ~env.carrier.nil /\ (~peerKnown \/ envSPFOK) THEN "env"
    ELSE "none"

\* the sender handleData takes the phone and the carrier from
SelectSender(env, hdr, peerKnown, envSPFOK, hdrSPFOK) ==
    IF ~env.carrier.nil /\ (~peerKnown \/ envSPFOK) THEN "env"
    ELSE IF ~hdr.carrier.nil /\ (~peerKnown \/ hdrSPFOK) THEN "hdr"
    ELSE "none"

\* Service.ConsumeAuthIDByNonce: the key handed to Store.Take
ConsumeAuthIDByNonce(nonce) == NonceKey(nonce)

\* the nonce lookup handleData calls: the one-time consume of the nonce entry
LookupAuthIDByNonce(nonce) == ConsumeAuthIDByNonce(nonce)

\* handleData up to the nonce lookup: SPF over both senders, selection, nonce
handleData(s, headerFrom, nonce, envOracle, hdrOracle) ==
    LET env == Extracted[s.mailFrom]
        hdr == Extracted[headerFrom]
        envChecked == s.peerKnown /\ SenderText[s.mailFrom] # EmptyString
                                  /\ Sanitized[s.mailFrom] # EmptyString
        hdrChecked == s.peerKnown /\ SenderText[headerFrom] # EmptyString
                                  /\ Sanitized[headerFrom] # EmptyString
        envResult  == IF envChecked THEN envOracle ELSE NotEvaluated
        hdrResult  == IF hdrChecked THEN hdrOracle ELSE NotEvaluated
        s1 == [s EXCEPT !.headerFrom = headerFrom,
                        !.envResult = envResult, !.hdrResult = hdrResult,
                        !.envSPFOK = (envResult = "pass"),
                        !.hdrSPFOK = (hdrResult = "pass")]
        src == SelectSender(env, hdr, s.peerKnown, s1.envSPFOK, s1.hdrSPFOK)
        s2 == [s1 EXCEPT !.src = src,
                         !.phone = IF src = "env" THEN env.phone
                                   ELSE IF src = "hdr" THEN hdr.phone
                                   ELSE NilPhone,
                         !.carrier = IF src = "env" THEN env.carrier
                                     ELSE IF src = "hdr" THEN hdr.carrier
                                     ELSE NilCarrier]
    IN  IF s.peerKnown /\ ~(s1.envSPFOK \/ s1.hdrSPFOK) THEN
            Reject(s1, SPFReject(envResult, hdrResult))
        ELSE IF s2.carrier.nil THEN Reject(s2, "550 Invalid carrier domain")
        ELSE IF nonce = 0 THEN Reject(s2, "550 Invalid nonce")
        ELSE [s2 EXCEPT !.pc = "take", !.nonce = nonce]

Data(d, size, headerFrom, nonce, envOracle, hdrOracle) ==
    /\ sess[d].pc = "mail"
    /\ LET s == [sess[d] EXCEPT !.size = size]
       IN  IF readData(size, limit).overLimit
           THEN sess' = [sess EXCEPT ![d] = Reject(s, "552 Message size exceeds limit")]
           ELSE sess' = [sess EXCEPT ![d] = handleData(s, headerFrom, nonce,
                                                       envOracle, hdrOracle)]
    /\ UNCHANGED <<now, cache, stripes, limit, settings, proc, reported, client, sv, mime, http, sc, lr, extract,
                   init, issued, chk,
                   takes, consumed, accepted>>

Logout(d) ==
    /\ sess[d].pc = "done"
    /\ sess' = [sess EXCEPT ![d] = ClosedSession]
    /\ UNCHANGED <<now, cache, stripes, limit, settings, proc, reported, client, sv, mime, http, sc, lr, extract,
                   init, issued, chk,
                   takes, consumed, accepted>>

(***************************************************************************)
(* Client.Take under the key's stripe lock: read the entry, then (if it    *)
(* is live) delete it and return its value.                                *)
(***************************************************************************)
\* whether the call is made for an issued nonce before AuthTTL has elapsed
WithinAuthTTL(nonce, t) ==
    \E r \in issued : r.nonce = nonce /\ t < r.nonceAt + AuthTTLSeconds

TakeGet(d) ==
    LET n    == sess[d].nonce
        key  == LookupAuthIDByNonce(n)
        raw  == CacheGet(cache, key)
        live == WithinAuthTTL(n, now)
        s    == [sess[d] EXCEPT !.takeLive = live,
                                !.takeFirst = live /\ takes[n] = 0,
                                !.takeAfter = consumed[n] > 0]
    IN  /\ sess[d].pc = "take"
        /\ TakeLockFree(key)
        /\ takes' = IF live THEN [takes EXCEPT ![n] = @ + 1] ELSE takes
        /\ IF ~raw.present THEN
               /\ sess' = [sess EXCEPT ![d] = Reject(s, "550 Invalid nonce")]
               /\ UNCHANGED <<cache, stripes>>
           ELSE IF Expired(raw, now) THEN
               /\ cache' = CacheDelete(cache, key)
               /\ sess' = [sess EXCEPT ![d] = Reject(s, "550 Invalid nonce")]
               /\ UNCHANGED stripes
           ELSE
               /\ stripes' = [stripes EXCEPT ![stripeIndex(key)] = d]
               /\ sess' = [sess EXCEPT ![d] = [s EXCEPT !.pc = "delete",
                                                        !.taken = raw.value]]
               /\ UNCHANGED cache
        /\ UNCHANGED <<now, limit, settings, proc, reported, client, sv, mime, http, sc, lr, extract,
                   init, issued, chk, consumed, accepted>>

TakeDelete(d) ==
    LET n   == sess[d].nonce
        key == LookupAuthIDByNonce(n)
    IN  /\ sess[d].pc = "delete"
        /\ cache' = CacheDelete(cache, key)
        /\ stripes' = [stripes EXCEPT ![stripeIndex(key)] =
                           IF stripes[stripeIndex(key)] = d THEN 0
                           ELSE stripes[stripeIndex(key)]]
        /\ consumed' = [consumed EXCEPT ![n] = @ + 1]
        /\ sess' = [sess EXCEPT ![d].pc = "store", ![d].ok = TRUE,
                                ![d].authID = sess[d].taken.ref]
        /\ UNCHANGED <<now, limit, settings, proc, reported, client, sv, mime, http, sc, lr, extract,
                   init, issued, chk, takes, accepted>>

(***************************************************************************)
(* Service.StoreVerified and the end of handleData.                        *)
(***************************************************************************)
\* a verified write made as soon as the nonce is known, before the consume
StoreVerifiedBeforeTake(d) ==
    LET s   == sess[d]
        raw == CacheGet(cache, NonceKey(s.nonce))
    IN  /\ s.pc = "take"
        /\ raw.present
        /\ cache' = SetEx(cache, AuthKey(raw.value.ref),
                          MarshalVerifiedPayload("verified", s.phone.v, s.carrier.v,
                                                 FormatRFC3339(now)),
                          VerifiedTTLSeconds, now)
        /\ sess' = [sess EXCEPT ![d].pc = "done", ![d].stored = TRUE,
                                ![d].result = "pass", ![d].reply = "250"]
        /\ UNCHANGED <<now, stripes, limit, settings, proc, reported, client, sv, mime, http, sc, lr, extract,
                       init, issued, chk, takes, consumed, accepted>>

\* the payload StoreVerified builds: a fresh VerifiedPayload, Phone and Carrier
\* set only from a pointer that is not nil
NewVerifiedPayload(phone, carrier, t) ==
    MarshalVerifiedPayload("verified",
                           IF phone.nil THEN EmptyString ELSE phone.v,
                           IF carrier.nil THEN "" ELSE carrier.v,
                           FormatRFC3339(t))

\* Service.StoreVerified called directly with any pair of pointers
CallStoreVerified(authID, phone, carrier) ==
    LET key == AuthKey(authID)
        failed == SetExFails(VerifiedTTLSeconds)
        after == IF failed THEN cache
                 ELSE SetEx(cache, key, NewVerifiedPayload(phone, carrier, now),
                            VerifiedTTLSeconds, now)
    IN  /\ cache' = after
        /\ sv' = [called |-> TRUE, authID |-> authID, phone |-> phone,
                  carrier |-> carrier, prev |-> CacheGet(cache, key),
                  next |-> CacheGet(after, key), at |-> now, err |-> failed]
        /\ UNCHANGED <<now, stripes, limit, settings, proc, reported, client, mime, http, sc, lr, extract,
                       init, issued, sess, chk, takes, consumed, accepted>>

StoreVerified(d) ==
    LET s == sess[d]
        phone   == IF s.phone.nil THEN EmptyString ELSE s.phone.v
        carrier == IF s.carrier.nil THEN "" ELSE s.carrier.v
        payloadJSON == NewVerifiedPayload(s.phone, s.carrier, now)
    IN  /\ s.pc = "store"
        /\ IF SetExFails(VerifiedTTLSeconds) THEN
               /\ sess' = [sess EXCEPT ![d] = Reject(s, "451 Temporary server error")]
               /\ UNCHANGED <<cache, accepted>>
           ELSE
               /\ cache' = SetEx(cache, AuthKey(s.authID), payloadJSON,
                                 VerifiedTTLSeconds, now)
               /\ accepted' = [accepted EXCEPT ![s.authID] =
                                   [n |-> @.n + 1, at |-> now,
                                    phone |-> phone, carrier |-> carrier]]
               /\ sess' = [sess EXCEPT ![d].pc = "done", ![d].stored = TRUE,
                                       ![d].result = "pass", ![d].reply = "250"]
        /\ UNCHANGED <<now, stripes, limit, settings, proc, reported, client, sv, mime, http, sc, lr, extract,
                   init, issued, chk, takes, consumed>>

(***************************************************************************)
(* parser.ExtractPhoneAndCarrier called on its own.                        *)
(***************************************************************************)
CallExtractPhoneAndCarrier(fromAddress) ==
    /\ extract.pc = "idle"
    /\ LET r == ExtractPhoneAndCarrier(fromAddress)
       IN  extract' = [pc |-> "done", fromAddress |-> fromAddress,
                       phone |-> r.phone, carrier |-> r.carrier]
    /\ UNCHANGED <<now, cache, stripes, limit, settings, proc, reported, client, sv, mime, http, sc, lr,
                   init, issued, sess, chk, takes, consumed, accepted>>

ExtractReturn ==
    /\ extract.pc = "done"
    /\ extract' = IdleParse
    /\ UNCHANGED <<now, cache, stripes, limit, settings, proc, reported, client, sv, mime, http, sc, lr,
                   init, issued, sess, chk, takes, consumed, accepted>>

(***************************************************************************)
(* parser.nonceScanner: the byte-at-a-time matcher of [MAPAE:<hex>].       *)
(***************************************************************************)
\* nonceScanner.reset
reset(s) == [s EXCEPT !.state = 0, !.digits = EmptyString]

\* a restart that forgets the byte that caused it
resetOnly(s, b) == reset(s)

\* nonceScanner.resetAndMaybeStart
resetAndMaybeStart(s, b) ==
    IF b = "[" THEN [reset(s) EXCEPT !.state = 1] ELSE reset(s)

\* states 2 to 6: the next letter of the prefix in either case, or a restart
scanPrefix(s, b, upper, lower) ==
    IF b = upper \/ b = lower THEN [s EXCEPT !.state = s.state + 1]
    ELSE resetAndMaybeStart(s, b)

\* a hex region closed by ] whatever its length
scanHexAnyLength(s, b) ==
    IF b = "]" THEN
        IF Len(s.digits) > 0 THEN [s EXCEPT !.found = s.digits] ELSE reset(s)
    ELSE IF b \in {" ", "\r", "\n", "\t"} THEN reset(s)
    ELSE IF b \in HexChars THEN [s EXCEPT !.digits = Append(s.digits, b)]
    ELSE resetAndMaybeStart(s, b)

\* state 7: the hex region
scanHex(s, b) ==
    IF b = "]" THEN
        IF Len(s.digits) = nonceHexLength THEN [s EXCEPT !.found = s.digits]
        ELSE reset(s)
    ELSE IF b \in {" ", "\r", "\n", "\t"} THEN reset(s)
    ELSE IF b \in HexChars THEN
        IF Len(s.digits) >= nonceHexLength THEN reset(s)
        ELSE [s EXCEPT !.digits = Append(s.digits, b)]
    ELSE resetAndMaybeStart(s, b)

\* nonceScanner.scanByte
scanByte(s, b) ==
    IF s.found # EmptyString THEN s
    ELSE IF s.state = 0 THEN
        IF b = "[" THEN [s EXCEPT !.state = 1] ELSE s
    ELSE IF s.state = 1 THEN
        IF b = "M" \/ b = "m" THEN [s EXCEPT !.state = 2]
        ELSE IF b = "[" THEN [s EXCEPT !.state = 1]
        ELSE [s EXCEPT !.state = 0]
    ELSE IF s.state = 2 THEN scanPrefix(s, b, "A", "a")
    ELSE IF s.state = 3 THEN scanPrefix(s, b, "P", "p")
    ELSE IF s.state = 4 THEN scanPrefix(s, b, "A", "a")
    ELSE IF s.state = 5 THEN scanPrefix(s, b, "E", "e")
    ELSE IF s.state = 6 THEN
        IF b = ":" THEN [s EXCEPT !.state = 7, !.digits = EmptyString]
        ELSE resetAndMaybeStart(s, b)
    ELSE scanHex(s, b)

\* nonceScanner.Scan
RECURSIVE Scan(_, _)
Scan(s, p) ==
    IF p = EmptyString THEN s
    ELSE LET s1 == scanByte(s, Head(p))
         IN  IF s1.found # EmptyString THEN s1 ELSE Scan(s1, Tail(p))

\* one Scan call on the scanner; fed keeps the bytes given to it so far
ScanChunk(p) ==
    /\ sc.calls < MaxChunks
    /\ sc' = [Scan(sc, p) EXCEPT !.fed = sc.fed \o p, !.calls = sc.calls + 1]
    /\ UNCHANGED <<now, cache, stripes, limit, settings, proc, reported, client, sv, mime, http, lr, extract,
                   init, issued, sess, chk, takes, consumed, accepted>>

(***************************************************************************)
(* parser.StreamExtractHeaderFromAndNonce: a countingLimitReader under a   *)
(* bufio.Reader, the MIME header, then scanDecoded over the body of a      *)
(* message that is not multipart and has no transfer encoding.             *)
(***************************************************************************)
ErrMessageTooLarge == "message_too_large"
EOF == "EOF"

Min(a, b) == IF a <= b THEN a ELSE b

\* countingLimitReader.Read(p) with len(p) = plen, when the source has k
\* bytes at hand: the bytes returned, the error, and the reader afterwards
LimitRead(l, plen, k) ==
    LET remain == (l.limit + 1) - l.n
        cap    == IF l.limit > 0 /\ plen > remain THEN remain ELSE plen
        got    == Min(Min(k, cap), Len(l.r))
        n      == l.n + got
    IN  IF l.limit > 0 /\ remain <= 0 THEN
            [bytes |-> EmptyString, err |-> ErrMessageTooLarge, l |-> l]
        ELSE IF Len(l.r) = 0 THEN
            [bytes |-> EmptyString, err |-> EOF, l |-> l]
        ELSE
            [bytes |-> SubSeq(l.r, 1, got),
             err   |-> IF l.limit > 0 /\ n > l.limit THEN ErrMessageTooLarge ELSE "",
             l     |-> [l EXCEPT !.r = SubSeq(l.r, got + 1, Len(l.r)), !.n = n]]

\* the position of the blank line that ends the MIME header, 0 if there is none
HeaderEnd(bytes) ==
    LET at == {i \in 2..Len(bytes) : bytes[i - 1] = "\n" /\ bytes[i] = "\n"}
    IN  IF at = {} THEN 0 ELSE CHOOSE i \in at : \A j \in at : i <= j

\* StreamExtractHeaderFromAndNonce(r, limit) is called
StreamBegin(msg, lim) ==
    /\ lr.pc = "idle"
    /\ lr' = [IdleStream EXCEPT !.pc = "header", !.r = msg, !.size = Len(msg),
                                !.limit = lim]
    /\ sc' = NewNonceScanner
    /\ UNCHANGED <<now, cache, stripes, limit, settings, proc, reported, client, sv, mime, http, extract,
                   init, issued, sess, chk, takes, consumed, accepted>>

\* bufio.Reader.fill while the header is being read
Fill(k) ==
    /\ lr.pc = "header"
    /\ HeaderEnd(lr.buf) = 0 /\ lr.berr = "" /\ Len(lr.buf) < bufioSize
    /\ LET res == LimitRead(lr, bufioSize - Len(lr.buf), k)
       IN  lr' = [res.l EXCEPT !.buf = lr.buf \o res.bytes, !.berr = res.err]
    /\ UNCHANGED <<now, cache, stripes, limit, settings, proc, reported, client, sv, mime, http, sc, extract,
                   init, issued, sess, chk, takes, consumed, accepted>>

\* tr.ReadMIMEHeader returns: the header, or the error the reader met
ReadMIMEHeader ==
    /\ lr.pc = "header"
    /\ HeaderEnd(lr.buf) # 0 \/ lr.berr # "" \/ Len(lr.buf) >= bufioSize
    /\ IF HeaderEnd(lr.buf) # 0 THEN
           lr' = [lr EXCEPT !.pc = "body",
                            !.buf = SubSeq(lr.buf, HeaderEnd(lr.buf) + 1, Len(lr.buf))]
       ELSE
           lr' = [lr EXCEPT !.pc = "done", !.berr = "",
                            !.err = IF lr.berr # "" THEN lr.berr ELSE "malformed header"]
    /\ UNCHANGED <<now, cache, stripes, limit, settings, proc, reported, client, sv, mime, http, sc, extract,
                   init, issued, sess, chk, takes, consumed, accepted>>

\* bufio.Reader.Read(buf) with len(buf) >= the buffer size: what is buffered,
\* else the stored error, else a read straight from the limit reader
BufferedRead(l, plen, k) ==
    IF Len(l.buf) > 0 THEN
        [bytes |-> l.buf, err |-> "", l |-> [l EXCEPT !.buf = EmptyString]]
    ELSE IF l.berr # "" THEN
        [bytes |-> EmptyString, err |-> l.berr, l |-> [l EXCEPT !.berr = ""]]
    ELSE LimitRead(l, plen, k)

\* scanDecoded after one r.Read: go on reading, drain the rest and return
\* nil, return nil at EOF, or return the error
scanDecoded(found, err) ==
    IF found THEN "drain"
    ELSE IF err = "" THEN "body"
    ELSE IF err = EOF THEN "return nil"
    ELSE "return err"

\* one turn of the loop of scanDecoded
BodyRead(k) ==
    /\ lr.pc = "body"
    /\ LET res  == BufferedRead(lr, bufioSize, k)
           s    == Scan(sc, res.bytes)
           then == scanDecoded(s.found # EmptyString, res.err)
       IN  /\ sc' = [s EXCEPT !.fed = sc.fed \o res.bytes]
           /\ lr' = IF then \in {"body", "drain"} THEN [res.l EXCEPT !.pc = then]
                    ELSE IF then = "return nil" THEN
                        [res.l EXCEPT !.pc = "done", !.nonce = s.found]
                    ELSE [res.l EXCEPT !.pc = "done", !.err = res.err]
    /\ UNCHANGED <<now, cache, stripes, limit, settings, proc, reported, client, sv, mime, http, extract,
                   init, issued, sess, chk, takes, consumed, accepted>>

\* io.Copy(io.Discard, r) once the nonce is found: reads to the first error,
\* which it drops
Drain(k) ==
    /\ lr.pc = "drain"
    /\ LET res == BufferedRead(lr, bufioSize, k)
       IN  lr' = IF res.err = "" THEN res.l
                 ELSE [res.l EXCEPT !.pc = "done", !.nonce = sc.found]
    /\ UNCHANGED <<now, cache, stripes, limit, settings, proc, reported, client, sv, mime, http, sc, extract,
                   init, issued, sess, chk, takes, consumed, accepted>>

\* the caller has the result
StreamReturn ==
    /\ lr.pc = "done"
    /\ lr' = IdleStream
    /\ sc' = NewNonceScanner
    /\ UNCHANGED <<now, cache, stripes, limit, settings, proc, reported, client, sv, mime, http, extract,
                   init, issued, sess, chk, takes, consumed, accepted>>

(***************************************************************************)
(* Bytes and the transfer encodings of a MIME leaf.  A byte is a           *)
(* one-character string (GRAVE for the grave accent); "NUL" stands for a   *)
(* byte outside printable ASCII.                                           *)
(***************************************************************************)
Printable ==
    <<" ", "!", "\"", "#", "$", "%", "&", "'", "(", ")", "*", "+", ",", "-", ".", "/",
      "0", "1", "2", "3", "4", "5", "6", "7", "8", "9", ":", ";", "<", "=", ">", "?",
      "@">> \o UpperCase \o <<"[", "\\", "]", "^", "_", "GRAVE">> \o LowerCase
          \o <<"{", "|", "}", "~">>

Ord(c) ==
    IF c = "\n" THEN 10 ELSE IF c = "\r" THEN 13 ELSE IF c = "\t" THEN 9
    ELSE 31 + CHOOSE i \in 1..Len(Printable) : Printable[i] = c

Chr(n) ==
    IF n = 10 THEN "\n" ELSE IF n = 13 THEN "\r" ELSE IF n = 9 THEN "\t"
    ELSE IF n \in 32..126 THEN Printable[n - 31] ELSE "NUL"

Max(a, b) == IF a >= b THEN a ELSE b

Whitespace == {" ", "\t", "\r", "\n"}

\* whitespaceFilterReader, and the strings.Map of decodeBase64
FilterWhitespace(s) == SelectSeq(s, LAMBDA c : c \notin Whitespace)

\* base64.StdEncoding: the alphabet and the value of a digit
encodeStd ==
    UpperCase \o LowerCase \o <<"0", "1", "2", "3", "4", "5", "6", "7", "8", "9", "+", "/">>

IsBase64(c) == c \in Range(encodeStd)

Base64Value(c) == (CHOOSE i \in 1..Len(encodeStd) : encodeStd[i] = c) - 1

\* base64.StdEncoding.EncodeToString
RECURSIVE EncodeBase64(_)
EncodeBase64(src) ==
    IF src = EmptyString THEN EmptyString
    ELSE LET n  == Min(3, Len(src))
             b2 == IF n >= 2 THEN Ord(src[2]) ELSE 0
             b3 == IF n >= 3 THEN Ord(src[3]) ELSE 0
             v  == Ord(src[1]) * 65536 + b2 * 256 + b3
         IN  <<encodeStd[(v \div 262144) + 1], encodeStd[((v \div 4096) % 64) + 1],
               IF n >= 2 THEN encodeStd[((v \div 64) % 64) + 1] ELSE "=",
               IF n >= 3 THEN encodeStd[(v % 64) + 1] ELSE "=">>
             \o EncodeBase64(SubSeq(src, n + 1, Len(src)))

\* the bytes of one quantum of n digits
Quantum(q, n) ==
    LET v == Base64Value(q[1]) * 262144 + Base64Value(q[2]) * 4096
             + (IF n >= 3 THEN Base64Value(q[3]) * 64 ELSE 0)
             + (IF n >= 4 THEN Base64Value(q[4]) ELSE 0)
    IN  SubSeq(<<Chr(v \div 65536), Chr((v \div 256) % 256), Chr(v % 256)>>, 1, n - 1)

\* a decoder result: the bytes it yields, then "" (end of input), "corrupt"
\* (a byte that cannot be decoded) or "short" (the input ends in mid-quantum)
Decoded(bytes, err) == [bytes |-> bytes, err |-> err]

Then(bytes, rest) == Decoded(bytes \o rest.bytes, rest.err)

\* base64.NewDecoder(base64.StdEncoding, r) read to its end
RECURSIVE DecodeBase64Std(_)
DecodeBase64Std(s) ==
    IF s = EmptyString THEN Decoded(EmptyString, "")
    ELSE IF Len(s) < 4 THEN
        Decoded(EmptyString, IF \A i \in 1..Len(s) : IsBase64(s[i]) THEN "short"
                             ELSE "corrupt")
    ELSE LET rest == SubSeq(s, 5, Len(s))
         IN  IF \A i \in 1..4 : IsBase64(s[i]) THEN
                 Then(Quantum(s, 4), DecodeBase64Std(rest))
             ELSE IF IsBase64(s[1]) /\ IsBase64(s[2]) /\ IsBase64(s[3]) /\ s[4] = "=" THEN
                 Decoded(Quantum(s, 3), IF rest = EmptyString THEN "" ELSE "corrupt")
             ELSE IF IsBase64(s[1]) /\ IsBase64(s[2]) /\ s[3] = "=" /\ s[4] = "=" THEN
                 Decoded(Quantum(s, 2), IF rest = EmptyString THEN "" ELSE "corrupt")
             ELSE Decoded(EmptyString, "corrupt")

\* base64.RawStdEncoding.DecodeString: no padding, a last quantum of 2 or 3
RECURSIVE DecodeBase64Raw(_)
DecodeBase64Raw(s) ==
    IF s = EmptyString THEN Decoded(EmptyString, "")
    ELSE IF \E i \in 1..Min(4, Len(s)) : ~IsBase64(s[i]) THEN Decoded(EmptyString, "corrupt")
    ELSE IF Len(s) = 1 THEN Decoded(EmptyString, "corrupt")
    ELSE IF Len(s) < 4 THEN Decoded(Quantum(s, Len(s)), "")
    ELSE Then(Quantum(s, 4), DecodeBase64Raw(SubSeq(s, 5, Len(s))))

HexValue(c) == (CHOOSE i \in 1..Len(HexDigits) : HexDigits[i] = ToLowerChar(c)) - 1

\* quotedprintable.NewReader(r) read to its end: =XX is a byte, = before a
\* line break is dropped with it, = before anything else stands for itself,
\* a control byte is an error
DecodeQuotedPrintable(s) ==
    LET n == Len(s)
        \* what the = at position i takes with it (an = is never itself taken)
        Soft1(i)   == i + 1 <= n /\ s[i + 1] = "\n"
        Soft2(i)   == i + 2 <= n /\ s[i + 1] = "\r" /\ s[i + 2] = "\n"
        IsHex(i)   == i + 2 <= n /\ s[i + 1] \in HexChars /\ s[i + 2] \in HexChars
        Literal(i) == i + 1 <= n /\ s[i + 1] # "\r"
        Taken(i)   ==
            \/ i >= 2 /\ s[i - 1] = "=" /\ (Soft1(i - 1) \/ Soft2(i - 1) \/ IsHex(i - 1))
            \/ i >= 3 /\ s[i - 2] = "=" /\ ~Soft1(i - 2) /\ (Soft2(i - 2) \/ IsHex(i - 2))
        Fails(i)   ==
            \/ s[i] = "NUL"
            \/ s[i] = "=" /\ ~(Soft1(i) \/ Soft2(i) \/ IsHex(i) \/ Literal(i))
        failing    == {i \in 1..n : Fails(i)}
        end        == IF failing = {} THEN n + 1
                      ELSE CHOOSE i \in failing : \A k \in failing : i <= k
        yields     == {i \in 1..(end - 1) :
                          ~Taken(i) /\ ~(s[i] = "=" /\ (Soft1(i) \/ Soft2(i)))}
        At(k)      == CHOOSE i \in yields : Cardinality({q \in yields : q < i}) = k - 1
        Byte(i)    == IF s[i] = "=" /\ IsHex(i)
                        THEN Chr(16 * HexValue(s[i + 1]) + HexValue(s[i + 2]))
                      ELSE s[i]
    IN  Decoded([k \in 1..Cardinality(yields) |-> Byte(At(k))],
                IF failing = {} THEN ""
                ELSE IF s[end] = "NUL" THEN "corrupt" ELSE "short")

(***************************************************************************)
(* MIME messages.  An entity is a leaf (content type, transfer encoding,   *)
(* encoded body) or a multipart (parts between delimiter lines, a close    *)
(* delimiter, an epilogue); a message is a From header and an entity.      *)
(***************************************************************************)
Leaf(ctype, cte, raw) ==
    [kind |-> "leaf", ctype |-> ctype, cte |-> cte, raw |-> raw,
     parts |-> <<>>, epilogue |-> EmptyString]

Multipart(parts, epilogue) ==
    [kind |-> "multipart", ctype |-> "multipart/mixed", cte |-> "", raw |-> EmptyString,
     parts |-> parts, epilogue |-> epilogue]

DelimiterLine  == <<"-", "-", "b", "\n">>
CloseDelimiter == <<"-", "-", "b", "-", "-", "\n">>

\* the header block of a part, up to and with its blank line
PartHeader(e) == <<"C", ":", "\n", "\n">>

\* the header block of a message: From with its folded lines, a blank line
RECURSIVE FoldedLines(_)
FoldedLines(lines) ==
    IF lines = <<>> THEN EmptyString
    ELSE Head(lines) \o <<"\n">> \o FoldedLines(Tail(lines))

MessageHeaderOf(m) ==
    (IF m.from = <<>> THEN <<"S", ":", "\n">>
     ELSE <<"F", "r", "o", "m", ":">> \o FoldedLines(m.from)) \o <<"\n">>

\* the bytes of the body of an entity
RECURSIVE Body(_)
RECURSIVE BodyParts(_, _)
Body(e) ==
    IF e.kind = "leaf" THEN e.raw
    ELSE BodyParts(e.parts, 1) \o CloseDelimiter \o e.epilogue

BodyParts(parts, i) ==
    IF i > Len(parts) THEN EmptyString
    ELSE DelimiterLine \o PartHeader(parts[i]) \o Body(parts[i]) \o <<"\n">>
         \o BodyParts(parts, i + 1)

RawMessage(m) == MessageHeaderOf(m) \o Body(m.entity)

(***************************************************************************)
(* The stream scanner over a message: scanEntity, scanLeafBody and         *)
(* scanDecoded, with the position of the reader in the source and the      *)
(* limit of countingLimitReader.                                           *)
(***************************************************************************)
\* of k more source bytes from pos, how many countingLimitReader lets through
Through(pos, k, lim) == IF lim > 0 THEN Min(k, Max(0, (lim + 1) - pos)) ELSE k

\* reading k bytes from pos and then for more, or k bytes and no more
HitsLimit(pos, k, lim)    == lim > 0 /\ pos + k > lim
HitsLimitAt(pos, k, lim)  == lim > 0 /\ pos + k > lim + 1

NewWalk == [sc |-> NewNonceScanner, err |-> "", pos |-> 0]

\* a line or a header block read by ReadMIMEHeader or NextPart
readStructure(w, k, lim) ==
    [w EXCEPT !.pos = w.pos + Through(w.pos, k, lim),
              !.err = IF HitsLimitAt(w.pos, k, lim) THEN ErrMessageTooLarge ELSE w.err]

\* io.Copy(io.Discard, r) and Part.Close: read on, whatever error ends it
discard(w, k, lim) == [w EXCEPT !.pos = w.pos + Through(w.pos, k, lim)]

\* sc.Scan over decoded bytes
feed(w, bytes) ==
    [w EXCEPT !.sc = [Scan(w.sc, bytes) EXCEPT !.fed = w.sc.fed \o bytes,
                                                !.calls = w.sc.calls + 1]]

\* a leaf decoder that passes a decoding error on
scanLeafBodyStrict(e, w, lim) ==
    LET k    == Len(e.raw)
        vis  == SubSeq(e.raw, 1, Through(w.pos, k, lim))
        dec  == IF e.cte = "base64" THEN DecodeBase64Std(FilterWhitespace(vis))
                ELSE IF e.cte = "quoted-printable" THEN DecodeQuotedPrintable(vis)
                ELSE Decoded(vis, "")
        w1   == discard(feed(w, dec.bytes), k, lim)
    IN  IF w.sc.found # EmptyString THEN discard(w, k, lim)
        ELSE IF w1.sc.found # EmptyString THEN w1
        ELSE IF dec.err # "" THEN [w1 EXCEPT !.err = dec.err]
        ELSE IF HitsLimit(w.pos, k, lim) THEN [w1 EXCEPT !.err = ErrMessageTooLarge]
        ELSE w1

\* scanLeafBody over scanDecoded.  The decoder sees the bytes the limit lets
\* through; a nonce in them ends the leaf with nil, a byte that cannot be
\* decoded ends it with nil after a drain, and otherwise the limit error of
\* the reader, if it was met, is returned.
scanLeafBody(e, w, lim) ==
    LET k    == Len(e.raw)
        vis  == SubSeq(e.raw, 1, Through(w.pos, k, lim))
        dec  == IF e.cte = "base64" THEN DecodeBase64Std(FilterWhitespace(vis))
                ELSE IF e.cte = "quoted-printable" THEN DecodeQuotedPrintable(vis)
                ELSE Decoded(vis, "")
        w1   == discard(feed(w, dec.bytes), k, lim)
    IN  IF w.sc.found # EmptyString THEN discard(w, k, lim)
        ELSE IF w1.sc.found # EmptyString THEN w1
        ELSE IF dec.err = "corrupt" THEN w1
        ELSE IF HitsLimit(w.pos, k, lim) THEN [w1 EXCEPT !.err = ErrMessageTooLarge]
        ELSE w1

\* a depth test that lets one more level through
DepthExceededLate(depth) == depth > 6

\* depth > 5
DepthExceeded(depth) == depth > 5

\* scanEntity, and its loop over mr.NextPart
RECURSIVE scanEntity(_, _, _, _)
RECURSIVE scanParts(_, _, _, _, _)
scanEntity(e, w, depth, lim) ==
    IF DepthExceeded(depth) THEN discard(w, Len(Body(e)), lim)
    ELSE IF e.kind = "multipart" THEN scanParts(e.parts, 1, w, depth, lim)
    ELSE scanLeafBody(e, w, lim)

scanParts(parts, i, w, depth, lim) ==
    IF i > Len(parts) THEN readStructure(w, Len(CloseDelimiter), lim)
    ELSE LET part == parts[i]
             w1 == readStructure(w, Len(DelimiterLine) + Len(PartHeader(part)), lim)
             w2 == scanEntity(part, w1, depth + 1, lim)
             w3 == [w2 EXCEPT !.pos = w1.pos + Through(w1.pos, Len(Body(part)) + 1, lim)]
         IN  IF w1.err # "" THEN w1
             ELSE IF w2.err # "" THEN w3
             ELSE scanParts(parts, i + 1, w3, depth, lim)

\* textproto.MIMEHeader.Get("From") after ReadMIMEHeader: the first line
\* and every continuation line trimmed, joined by one space
RECURSIVE JoinTrimmed(_)
JoinTrimmed(lines) ==
    IF lines = <<>> THEN EmptyString
    ELSE IF Len(lines) = 1 THEN TrimSpace(lines[1])
    ELSE TrimSpace(lines[1]) \o <<" ">> \o JoinTrimmed(Tail(lines))

\* StreamExtractHeaderFromAndNonce(r, limit)
StreamExtractHeaderFromAndNonce(m, lim) ==
    LET w0 == readStructure(NewWalk, Len(MessageHeaderOf(m)), lim)
        w  == scanEntity(m.entity, w0, 0, lim)
        headerFrom == TrimSpace(JoinTrimmed(m.from))
    IN  IF w0.err # "" THEN
            [headerFrom |-> EmptyString, nonce |-> EmptyString, err |-> w0.err,
             pos |-> w0.pos, scanned |-> EmptyString]
        ELSE
            [headerFrom |-> headerFrom,
             nonce |-> IF w.err = "" THEN w.sc.found ELSE EmptyString,
             err |-> w.err, pos |-> w.pos, scanned |-> w.sc.fed]

\* StreamExtractHeaderFromAndNonce is called on a message
CallStreamExtract(m, lim) ==
    /\ mime.pc = "idle"
    /\ mime' = [IdleMime EXCEPT !.pc = "streamed", !.msg = m, !.limit = lim,
                                !.size = Len(RawMessage(m)),
                                !.stream = StreamExtractHeaderFromAndNonce(m, lim)]
    /\ UNCHANGED <<now, cache, stripes, limit, settings, proc, reported, client, sv, http, sc, lr,
                   extract, init, issued, sess, chk, takes, consumed, accepted>>

(***************************************************************************)
(* The legacy parser over the same messages: ParseBody,                    *)
(* extractTextFromBody and FindNonceWithFallback.  splitMultipart cuts the *)
(* body at its delimiter lines, so a part's body is its bytes and the line *)
(* break that ends them.                                                   *)
(***************************************************************************)
\* decodeASCII: the bytes below 0x80 ("HIGH" stands for any other byte)
decodeASCII(data) == SelectSeq(data, LAMBDA c : c # "HIGH")

IsBlank(text) == \A i \in 1..Len(text) : text[i] \in Whitespace

\* nonceRe = (?i)\[MAPAE:([0-9a-f]{64})\] matches at position i
nonceReAt(text, i) ==
    /\ i + 7 + nonceHexLength <= Len(text)
    /\ ToLower(SubSeq(text, i, i + 6)) = <<"[", "m", "a", "p", "a", "e", ":">>
    /\ \A j \in (i + 7)..(i + 6 + nonceHexLength) : text[j] \in HexChars
    /\ text[i + 7 + nonceHexLength] = "]"

\* findNonce: the digits of the leftmost match
findNonce(text) ==
    LET at == {i \in 1..Len(text) : nonceReAt(text, i)}
    IN  IF IsBlank(text) \/ at = {} THEN EmptyString
        ELSE LET i == CHOOSE k \in at : \A j \in at : k <= j
             IN  SubSeq(text, i + 7, i + 6 + nonceHexLength)

\* decodeBase64: StdEncoding, then RawStdEncoding, else nil
decodeBase64(body) ==
    LET cleaned == FilterWhitespace(body)
        std     == DecodeBase64Std(cleaned)
        raw     == DecodeBase64Raw(cleaned)
    IN  IF cleaned = EmptyString THEN EmptyString
        ELSE IF std.err = "" THEN std.bytes
        ELSE IF raw.err = "" THEN raw.bytes
        ELSE EmptyString

\* decodeQuotedPrintable: io.ReadAll of the reader, nil on an error
decodeQuotedPrintable(body) ==
    LET decoded == DecodeQuotedPrintable(body)
    IN  IF decoded.err # "" THEN EmptyString ELSE decoded.bytes

\* decodeTransfer
decodeTransfer(body, encoding) ==
    IF encoding = "base64" THEN
        IF Len(decodeBase64(body)) > 0 THEN decodeBase64(body) ELSE body
    ELSE IF encoding = "quoted-printable" THEN
        IF Len(decodeQuotedPrintable(body)) > 0 THEN decodeQuotedPrintable(body) ELSE body
    ELSE body

\* strings.HasPrefix(ctype, "text/") || ctype == ""
IsTextType(ctype) == ctype \in {"text/plain", "text/html", ""}

\* the bytes extractTextFromBody is given for an entity at a depth
BodyAt(e, depth) == IF depth = 0 THEN Body(e) ELSE Body(e) \o <<"\n">>

\* extractTextFromBody, and its loop over the parts
RECURSIVE extractTextFromBody(_, _)
RECURSIVE extractTextFromParts(_, _, _)
extractTextFromBody(e, depth) ==
    IF depth > 5 THEN decodeASCII(BodyAt(e, depth))
    ELSE IF e.kind = "multipart" THEN extractTextFromParts(e.parts, 1, depth)
    ELSE IF IsTextType(e.ctype) THEN decodeASCII(decodeTransfer(BodyAt(e, depth), e.cte))
    ELSE EmptyString

\* strings.Join(texts, "\n") of the texts that are not blank
extractTextFromParts(parts, i, depth) ==
    IF i > Len(parts) THEN EmptyString
    ELSE LET text == extractTextFromBody(parts[i], depth + 1)
             rest == extractTextFromParts(parts, i + 1, depth)
         IN  IF IsBlank(text) THEN rest
             ELSE IF rest = EmptyString THEN text
             ELSE text \o <<"\n">> \o rest

\* parseHeaders(...)["from"]: the value trimmed, each continuation line
\* trimmed and added after a space, the whole trimmed again
RECURSIVE parseHeadersFrom(_, _)
parseHeadersFrom(value, lines) ==
    IF lines = <<>> THEN value
    ELSE parseHeadersFrom(TrimSpace(value \o <<" ">> \o TrimSpace(Head(lines))),
                          Tail(lines))

\* ParseBody
ParseBody(m) ==
    LET bodyText == extractTextFromBody(m.entity, 0)
    IN  [bodyText |-> IF bodyText = EmptyString THEN decodeASCII(RawMessage(m))
                      ELSE bodyText,
         from |-> IF m.from = <<>> THEN EmptyString
                  ELSE parseHeadersFrom(TrimSpace(Head(m.from)), Tail(m.from))]

\* a fallback that stops at the decoded text
FindNonceInTextOnly(bodyText, body) == findNonce(bodyText)

\* FindNonceWithFallback
FindNonceWithFallback(bodyText, body) ==
    IF findNonce(bodyText) # EmptyString THEN findNonce(bodyText)
    ELSE IF findNonce(decodeASCII(body)) # EmptyString THEN findNonce(decodeASCII(body))
    ELSE IF findNonce(decodeASCII(decodeQuotedPrintable(body))) # EmptyString THEN
        findNonce(decodeASCII(decodeQuotedPrintable(body)))
    ELSE findNonce(decodeASCII(decodeBase64(body)))

\* FindNonceWithFallback called on its own
CallFindNonceWithFallback(bodyText, body) ==
    /\ mime.pc = "idle"
    /\ mime' = [IdleMime EXCEPT !.pc = "fallback",
                    !.msg = [bodyText |-> bodyText, body |-> body],
                    !.size = Len(body),
                    !.legacy = [NoParse EXCEPT
                                    !.nonce = FindNonceWithFallback(bodyText, body),
                                    !.scanned = bodyText]]
    /\ UNCHANGED <<now, cache, stripes, limit, settings, proc, reported, client, sv, http, sc, lr,
                   extract, init, issued, sess, chk, takes, consumed, accepted>>

\* the legacy path of handleData on the message the stream scanner was given
CallParseBody ==
    /\ mime.pc = "streamed"
    /\ LET parsed == ParseBody(mime.msg)
       IN  mime' = [mime EXCEPT !.pc = "parsed",
                        !.legacy = [headerFrom |-> parsed.from,
                                    nonce |-> FindNonceWithFallback(parsed.bodyText,
                                                                    Body(mime.msg.entity)),
                                    err |-> "", pos |-> mime.size,
                                    scanned |-> parsed.bodyText]]
    /\ UNCHANGED <<now, cache, stripes, limit, settings, proc, reported, client, sv, http, sc, lr,
                   extract, init, issued, sess, chk, takes, consumed, accepted>>

\* the caller has the results
MimeReturn ==
    /\ mime.pc # "idle"
    /\ mime' = IdleMime
    /\ UNCHANGED <<now, cache, stripes, limit, settings, proc, reported, client, sv, http, sc, lr,
                   extract, init, issued, sess, chk, takes, consumed, accepted>>

(***************************************************************************)
(* Store errors.  A store call can return an error (bigcache refusing the  *)
(* call, a Redis connection that fails); handleData answers 451.           *)
(***************************************************************************)
\* a handler that goes on to 250 after a store error
FailStoreIgnored(s, call) ==
    [s EXCEPT !.pc = "done", !.storeErr = call, !.reply = "250"]

\* handleData returning after a store call has returned an error
FailStore(s, call) ==
    [Reject(s, "451 Temporary server error") EXCEPT !.storeErr = call]

\* Client.Take: c.cache.Get returns an error
TakeGetFails(d) ==
    /\ sess[d].pc = "take"
    /\ TakeLockFree(LookupAuthIDByNonce(sess[d].nonce))
    /\ sess' = [sess EXCEPT ![d] = FailStore(sess[d], "take")]
    /\ UNCHANGED <<now, cache, stripes, limit, settings, proc, reported, client, sv, mime, http, sc, lr, extract,
                   init, issued, chk, takes, consumed, accepted>>

\* Client.Take: c.cache.Delete returns an error and the entry stays
TakeDeleteFails(d) ==
    LET key == LookupAuthIDByNonce(sess[d].nonce)
    IN  /\ sess[d].pc = "delete"
        /\ stripes' = [stripes EXCEPT ![stripeIndex(key)] =
                           IF stripes[stripeIndex(key)] = d THEN 0
                           ELSE stripes[stripeIndex(key)]]
        /\ sess' = [sess EXCEPT ![d] = FailStore(sess[d], "take")]
        /\ UNCHANGED <<now, cache, limit, settings, proc, reported, client, sv, mime, http, sc, lr, extract,
                       init, issued, chk, takes, consumed, accepted>>

\* Service.StoreVerified: SetEx returns an error and nothing is written
StoreVerifiedFails(d) ==
    /\ sess[d].pc = "store"
    /\ sess' = [sess EXCEPT ![d] = FailStore(sess[d], "store")]
    /\ UNCHANGED <<now, cache, stripes, limit, settings, proc, reported, client, sv, mime, http, sc, lr, extract,
                   init, issued, chk, takes, consumed, accepted>>

(***************************************************************************)
(* The inputs the specifications draw.                                     *)
(***************************************************************************)
\* the challenge issued first
FirstChallenge == CHOOSE a \in AuthIds : \A b \in AuthIds : a <= b

BodyNonces == 0..MaxChallenges          \* 0: the body carries no nonce
StreamSizes == {DataSizeLimitBytes - 1, DataSizeLimitBytes, DataSizeLimitBytes + 1}

SessionStep(d, knowns, senders, headers, nonces, results, sizes) ==
    \/ \E known \in knowns : NewSession(d, known)
    \/ \E from \in senders : Mail(d, from)
    \/ \E size \in sizes, h \in headers, n \in nonces, e \in results, r \in results :
           Data(d, size, h, n, e, r)
    \/ TakeGet(d)
    \/ TakeDelete(d)
    \/ StoreVerified(d)
    \/ Logout(d)

(***************************************************************************)
(* Spec: challenges, the clock, and concurrent deliveries from a carrier   *)
(* gateway whose SPF passes.                                               *)
(***************************************************************************)
Next ==
    \/ Tick
    \/ InitAuthBegin
    \/ InitAuthNonce
    \/ \E d \in Deliveries :
           SessionStep(d, {TRUE}, {1}, {NoSender}, Nonces, {"pass"},
                       {DataSizeLimitBytes})

Spec == Init /\ [][Next]_vars

(***************************************************************************)
(* SpecPoll: challenges, the clock, one delivery and a polling client.     *)
(***************************************************************************)
NextPoll ==
    \/ Tick
    \/ InitAuthBegin
    \/ InitAuthNonce
    \/ \E a \in AuthIds : CheckAuthGet(a)
    \/ CheckAuthDelete
    \/ CheckAuthReturn
    \/ SessionStep(1, {TRUE}, {1, 4}, {NoSender}, Nonces, {"pass"},
                   {DataSizeLimitBytes})

SpecPoll == Init /\ [][NextPoll]_vars

(***************************************************************************)
(* SpecMonotone: SpecPoll with the client remembering, per challenge, the  *)
(* status its last completed CheckAuth call returned.                      *)
(***************************************************************************)
\* CheckAuth returns to a caller that holds an issued auth id
CheckAuthReport ==
    /\ chk.pc = "done"
    /\ chk' = IdleCheck
    /\ reported' = IF chk.known THEN [reported EXCEPT ![chk.authID] = chk.status]
                   ELSE reported
    /\ UNCHANGED <<now, cache, stripes, limit, settings, proc, client, sv, mime, http, sc, lr,
                   extract, init, issued, sess, takes, consumed, accepted>>

NextMonotone ==
    \/ Tick
    \/ InitAuthBegin
    \/ InitAuthNonce
    \/ \E a \in AuthIds : CheckAuthGet(a)
    \/ CheckAuthDelete
    \/ CheckAuthReport
    \/ SessionStep(1, {TRUE}, {1}, {NoSender}, Nonces, {"pass"},
                   {DataSizeLimitBytes})

SpecMonotone == Init /\ [][NextMonotone]_vars

(***************************************************************************)
(* SpecExpiry: challenges, the clock, one delivery and a client that polls  *)
(* the first challenge with CheckAuth and CheckSigned.                     *)
(***************************************************************************)
NextExpiry ==
    \/ Tick
    \/ InitAuthBegin
    \/ InitAuthNonce
    \/ CheckAuthGet(FirstChallenge)
    \/ CheckAuthDelete
    \/ CheckAuthReturn
    \/ CallCheckSigned(AuthIDText(FirstChallenge))
    \/ Respond
    \/ SessionStep(1, {TRUE}, {1}, {NoSender}, Nonces, {"pass"},
                   {DataSizeLimitBytes})

SpecExpiry == Init /\ [][NextExpiry]_vars

(***************************************************************************)
(* SpecData: one delivery with every sender, SPF result, stream size and   *)
(* size limit.                                                             *)
(***************************************************************************)
SizeLimits == {0 - 1, 0, DataSizeLimitBytes}

\* MAIL FROM carries a path, never a display name or a list
EnvelopeSenders == {i \in SenderIds : IsAddrSpec(SenderText[i])} \cup {NoSender}

InitData ==
    /\ now = 0
    /\ cache = [k \in Keys |-> ErrEntryNotFound]
    /\ stripes = [s \in 0..(lockStripeCount - 1) |-> 0]
    /\ limit \in SizeLimits
    /\ init = IdleInit
    /\ issued = {}
    /\ sess = [d \in Deliveries |-> NewSessionState]
    /\ chk = IdleCheck
    /\ settings = DefaultSettings
    /\ NoRequests
    /\ NoHistory

NextData ==
    \/ InitAuthBegin
    \/ InitAuthNonce
    \/ SessionStep(1, BOOLEAN, EnvelopeSenders, SenderIds, BodyNonces, SPFOutcomes,
                   StreamSizes)

SpecData == InitData /\ [][NextData]_vars

(***************************************************************************)
(* SpecCheckAuth: CheckAuth over every auth entry a SetEx can have         *)
(* written.                                                                *)
(***************************************************************************)
StoredValues ==
    { NotJSON, PlainAuthID(1),
      MarshalAuthPayload("pending", FormatRFC3339(0)),
      MarshalAuthPayload("expired", FormatRFC3339(0)),
      MarshalVerifiedPayload("verified", EmptyString, "", EmptyString),
      MarshalVerifiedPayload("verified", <<"0", "1", "0">>, "KT", FormatRFC3339(0)) }

StoredEntries ==
    {ErrEntryNotFound} \cup
    [present : {TRUE}, value : StoredValues, expiresAt : 1..MaxTime]

InitCheckAuth ==
    /\ now = 0
    /\ cache \in {c \in [Keys -> StoredEntries] :
                      \A n \in Nonces : c[NonceKey(n)] = ErrEntryNotFound}
    /\ stripes = [s \in 0..(lockStripeCount - 1) |-> 0]
    /\ limit = DataSizeLimitBytes
    /\ init = IdleInit
    /\ issued = {}
    /\ sess = [d \in Deliveries |-> NewSessionState]
    /\ chk = IdleCheck
    /\ settings = DefaultSettings
    /\ NoRequests
    /\ NoHistory

NextCheckAuth ==
    \/ Tick
    \/ \E a \in AuthIds : CheckAuthGet(a)
    \/ CheckAuthDelete
    \/ CheckAuthReturn

SpecCheckAuth == InitCheckAuth /\ [][NextCheckAuth]_vars

(***************************************************************************)
(* SpecNonce: as Spec, with deliveries whose message carries no nonce.     *)
(***************************************************************************)
NextNonce ==
    \/ Tick
    \/ InitAuthBegin
    \/ InitAuthNonce
    \/ \E d \in Deliveries :
           SessionStep(d, {TRUE}, {1}, {NoSender}, BodyNonces, {"pass"},
                       {DataSizeLimitBytes})

SpecNonce == Init /\ [][NextNonce]_vars

(***************************************************************************)
(* SpecFaults: challenges and deliveries over a store whose calls can      *)
(* return an error.                                                        *)
(***************************************************************************)
NextFaults ==
    \/ InitAuthBegin
    \/ InitAuthNonce
    \/ \E d \in Deliveries :
           \/ SessionStep(d, {TRUE}, {1}, {NoSender}, Nonces, {"pass"},
                          {DataSizeLimitBytes})
           \/ TakeGetFails(d)
           \/ TakeDeleteFails(d)
           \/ StoreVerifiedFails(d)

SpecFaults == Init /\ [][NextFaults]_vars

(***************************************************************************)
(* SpecScan: a nonceScanner fed a byte sequence in chunks.                 *)
(***************************************************************************)
Chunks ==
    { <<"[", "M", "A", "P", "A", "E", ":">>,
      <<"[", "m", "A", "p", "a", "e", ":">>,
      <<"[", "M", "A", "P">>,
      <<"[">>, <<"a", "B">>, <<"7">>, <<"]">>, <<" ">>, <<"g">> }

NextScan == \E p \in Chunks : ScanChunk(p)

SpecScan == Init /\ [][NextScan]_vars

(***************************************************************************)
(* SpecStream: StreamExtractHeaderFromAndNonce over messages with a nonce  *)
(* at the start, in the middle or at the end of the body, or with none,    *)
(* under limits around the message size, the source handing over one byte  *)
(* or all it has.                                                          *)
(***************************************************************************)
\* From: x, and the blank line
MessageHeader == <<"F", "\n", "\n">>
NonceToken == <<"[", "M", "A", "P", "A", "E", ":">> \o Repeat("a", nonceHexLength) \o <<"]">>

Messages ==
    {MessageHeader \o Repeat("x", i) \o t \o Repeat("x", j) :
         i \in 0..MaxFill, j \in 0..MaxFill, t \in {NonceToken, EmptyString}}

StreamLimits ==
    {0, 2, Len(MessageHeader) + Len(NonceToken),
     Len(MessageHeader) + Len(NonceToken) + MaxFill}

SourceReads == {1, bufioSize}

NextStream ==
    \/ \E msg \in Messages, lim \in StreamLimits : StreamBegin(msg, lim)
    \/ \E k \in SourceReads : Fill(k)
    \/ ReadMIMEHeader
    \/ \E k \in SourceReads : BodyRead(k)
    \/ \E k \in SourceReads : Drain(k)
    \/ StreamReturn

SpecStream == Init /\ [][NextStream]_vars

(***************************************************************************)
(* SpecExtract: ExtractPhoneAndCarrier over addresses put together from a  *)
(* local part, a domain and what surrounds the address.                    *)
(***************************************************************************)
LocalParts ==
    { <<"0", "1", "0", "1", "2", "3", "4", "5", "6", "7", "8">>,
      <<"0", "1", "0", "-", "1", "2", "3", "4", "-", "5", "6", "7", "8">>,
      <<"0", "1", "0", "1", "2", "3", "4", "5">>,                       \* 8 digits
      <<"8", "2", "0", "1", "0", "1", "2", "3", "4", "5", "6", "7", "8", "9">>,  \* 14
      <<"0", "1", "0", "1", "2", "3", "4", "5", "6", "7", "a">>,
      <<"-", "-", "-", "-", "-", "-", "-", "-", "-">>,
      <<"x">> }

MailDomains ==
    { MmsKtCoKr, VmmsNateCom, MmsmailUplusCoKr,
      <<"V", "M", "M", "S", ".", "N", "a", "t", "e", ".", "c", "o", "m">>,
      <<"e", "v", "i", "l", ".", "i", "o">>,
      MmsKtCoKr \o <<".">>,
      EmptyString }

\* the address alone, in angle brackets after a name, after another address,
\* and with surrounding blanks
Surroundings ==
    { [before |-> EmptyString, after |-> EmptyString],
      [before |-> <<"K", "T", " ", "<">>, after |-> <<">">>],
      [before |-> <<"x", "@", "e", "v", "i", "l", ".", "i", "o", ",", " ">>,
       after |-> EmptyString],
      [before |-> <<" ">>, after |-> <<" ">>] }

FromAddresses ==
    {w.before \o l \o <<"@">> \o d \o w.after :
         l \in LocalParts, d \in MailDomains, w \in Surroundings}
    \cup {EmptyString, <<" ", " ">>}

NextExtract ==
    \/ \E a \in FromAddresses : CallExtractPhoneAndCarrier(a)
    \/ ExtractReturn

SpecExtract == Init /\ [][NextExtract]_vars

(***************************************************************************)
(* SpecMatcher: a nonceScanner fed, byte by byte, a candidate that breaks  *)
(* off at any point, then either a whole token at once, or the byte that   *)
(* breaks it and then a whole token or nothing.                            *)
(***************************************************************************)
CandidateStarts ==
    LET whole == <<"[", "M", "A", "P", "A", "E", ":">> \o Repeat("a", nonceHexLength)
    IN  {SubSeq(whole, 1, k) : k \in 0..Len(whole)}

BreakingBytes == {"[", "]", " ", "\n", "a", "x"}

Candidates ==
    {p \o <<b>> \o t : p \in CandidateStarts, b \in BreakingBytes,
                       t \in {NonceToken, EmptyString}}
        \cup {p \o NonceToken : p \in CandidateStarts}

\* Scan of the next byte of a candidate
ScanNextByte ==
    \E c \in Candidates :
        /\ Len(sc.fed) < Len(c)
        /\ SubSeq(c, 1, Len(sc.fed)) = sc.fed
        /\ LET b == c[Len(sc.fed) + 1]
           IN  sc' = [Scan(sc, <<b>>) EXCEPT !.fed = Append(sc.fed, b),
                                           !.calls = sc.calls + 1]
        /\ UNCHANGED <<now, cache, stripes, limit, settings, proc, reported, client, sv, mime, http, lr,
                       extract, init, issued, sess, chk, takes, consumed, accepted>>

SpecMatcher == Init /\ [][ScanNextByte]_vars

(***************************************************************************)
(* SpecMime: messages of one leaf in each transfer encoding, well and      *)
(* badly encoded, multiparts of two such leaves with and without an        *)
(* epilogue, and leaves nested up to seven multiparts deep, given to the   *)
(* stream scanner under no limit and under limits that fall inside them,   *)
(* and then to the legacy parser.                                          *)
(***************************************************************************)
NonceTokenB == <<"[", "M", "A", "P", "A", "E", ":">> \o Repeat("b", nonceHexLength) \o <<"]">>

\* a quoted-printable text with a soft line break after its eighth byte
SoftBroken(t) == SubSeq(t, 1, 8) \o <<"=", "\n">> \o SubSeq(t, 9, Len(t))

\* a base64 text broken into lines after its fourth digit
Wrapped(t) == SubSeq(t, 1, 4) \o <<"\r", "\n">> \o SubSeq(t, 5, Len(t))

PlainToken  == Leaf("text/plain", "", NonceToken)
PlainTokenB == Leaf("text/plain", "", NonceTokenB)
PlainNone   == Leaf("text/plain", "", <<"h", "i">>)

MimeLeaves ==
    { PlainToken, PlainNone,
      Leaf("text/plain", "base64", Wrapped(EncodeBase64(NonceToken))),
      Leaf("text/plain", "base64", <<"!", "!", "!", "!">>),
      Leaf("text/plain", "quoted-printable", SoftBroken(NonceToken)),
      Leaf("text/plain", "quoted-printable", <<"h", "NUL">>),
      Leaf("application/octet-stream", "base64", EncodeBase64(NonceTokenB)) }

RECURSIVE Nest(_, _)
Nest(e, k) == IF k = 0 THEN e ELSE Multipart(<<Nest(e, k - 1)>>, EmptyString)

MaxNesting == 7

\* an epilogue longer than the two buffers between the source and the parts
LongEpilogue == Repeat("z", 2 * bufioSize + 1)

FromHeaders ==
    { <<>>, <<<<" ", "0", "1", "0", "@", "k", "t", " ">>>>,
      <<<<" ", "a">>, <<" ", " ", "b", " ">>>> }

MimeEntities ==
    MimeLeaves
    \cup {Multipart(<<a, b>>, ep) : a \in MimeLeaves, b \in MimeLeaves,
                                    ep \in {EmptyString, LongEpilogue}}
    \cup {Nest(e, k) : e \in {PlainToken, PlainNone}, k \in 1..MaxNesting}
    \cup {Multipart(<<Nest(PlainToken, k), PlainTokenB>>, EmptyString) : k \in 4..6}

MimeMessages ==
    {[from |-> f, entity |-> e] : f \in FromHeaders, e \in MimeLeaves}
    \cup {[from |-> <<>>, entity |-> e] : e \in MimeEntities}

MimeLimits == {0, 10, 24}

NextMime ==
    \/ \E m \in MimeMessages, lim \in MimeLimits : CallStreamExtract(m, lim)
    \/ CallParseBody
    \/ MimeReturn

SpecMime == Init /\ [][NextMime]_vars

(***************************************************************************)
(* SpecFallback: FindNonceWithFallback over decoded texts with and without *)
(* a token and raw bodies that hold a token as it is, behind a byte that   *)
(* is not ASCII, quoted-printable encoded, base64 encoded with and without *)
(* padding and line breaks, or not at all.                                 *)
(***************************************************************************)
Token(c) == <<"[", "M", "A", "P", "A", "E", ":">> \o Repeat(c, nonceHexLength) \o <<"]">>

\* a base64 text without its padding
Unpadded(t) == SelectSeq(t, LAMBDA c : c # "=")

\* a text with a byte of 0x80 or above after its eighth byte
HighInside(t) == SubSeq(t, 1, 8) \o <<"HIGH">> \o SubSeq(t, 9, Len(t))

DecodedTexts ==
    { EmptyString, <<" ", "\n">>, <<"n", "o">>, Token("a"),
      <<"x">> \o Token("a") \o Token("c"),
      <<"[", "m", "a", "p", "a", "e", ":">> \o Repeat("A", nonceHexLength) \o <<"]">>,
      SubSeq(Token("a"), 1, Len(Token("a")) - 1),
      <<"[", "M", "A", "P", "A", "E", ":">> \o Repeat("a", nonceHexLength + 1) \o <<"]">> }

RawBodies ==
    { EmptyString, <<"n", "o", "t", "h", "i", "n", "g">>, <<"!", "!", "!", "!">>,
      Token("b"), HighInside(Token("b")),
      SoftBroken(Token("d")),
      <<"=", "5", "B">> \o SubSeq(Token("d"), 2, Len(Token("d")) - 1) \o <<"=", "5", "D">>,
      SoftBroken(Token("d")) \o <<"\n">> \o Token("b"),
      SoftBroken(Token("d")) \o <<"NUL">>,
      EncodeBase64(Token("e")), Wrapped(EncodeBase64(Token("e"))),
      Unpadded(EncodeBase64(Token("e"))),
      EncodeBase64(<<"p", " ">> \o Token("e") \o <<" ", "s">>),
      EncodeBase64(Token("e")) \o <<"!">>,
      EncodeBase64(SoftBroken(Token("e"))) }

NextFallback ==
    \/ \E bodyText \in DecodedTexts, body \in RawBodies :
           CallFindNonceWithFallback(bodyText, body)
    \/ MimeReturn

SpecFallback == Init /\ [][NextFallback]_vars

(***************************************************************************)
(* SpecCase: one challenge after another, and a delivery whose body holds  *)
(* the issued nonce as InitAuth wrote it, in upper case, or no token.      *)
(* FindNonceWithFallback runs on the body and the digits it returns are    *)
(* the ones the nonce lookup is called with.                               *)
(***************************************************************************)
\* strings.ToUpper
ToUpperChar(c) ==
    IF c \in Range(LowerCase)
    THEN UpperCase[CHOOSE i \in 1..Len(LowerCase) : LowerCase[i] = c]
    ELSE c
ToUpper(s) == [i \in 1..Len(s) |-> ToUpperChar(s[i])]

\* the n-th nonce at the length the matcher takes: the leading digits of
\* randomHex(32) and its last one
ShortNonceText(n) ==
    SubSeq(NonceText(n), 1, nonceHexLength - 1) \o <<NonceText(n)[Len(NonceText(n))]>>

\* the entry fmt.Sprintf("nonce:%s", nonce) names: keys are compared byte
\* for byte; 0 when InitAuth wrote no key with these digits, and the lookup
\* then finds no entry
NonceNamed(digits) ==
    LET named == {n \in Nonces : ShortNonceText(n) = digits}
    IN  IF named = {} THEN 0 ELSE CHOOSE n \in named : TRUE

\* handleData with the nonce FindNonceWithFallback returned
DataParsed(d) ==
    /\ mime.pc \in {"fallback", "parsed"}
    /\ Data(d, DataSizeLimitBytes, NoSender, NonceNamed(mime.legacy.nonce),
            "pass", "pass")

CaseBodies ==
    {<<"n", "o">>} \cup
    UNION {{smsBody(ShortNonceText(n)), smsBody(ToUpper(ShortNonceText(n))),
            ToLower(smsBody(ShortNonceText(n)))} : n \in Nonces}

NextCase ==
    \/ Tick
    \/ InitAuthBegin
    \/ InitAuthNonce
    \/ \E body \in CaseBodies : CallFindNonceWithFallback(body, body)
    \/ MimeReturn
    \/ NewSession(1, TRUE)
    \/ Mail(1, 1)
    \/ DataParsed(1)
    \/ TakeGet(1)
    \/ TakeDelete(1)
    \/ StoreVerified(1)
    \/ Logout(1)

SpecCase == Init /\ [][NextCase]_vars

(***************************************************************************)
(* SpecHeader: challenges and a delivery whose message holds the issued    *)
(* token in its header block (on a continuation line of From), in its      *)
(* body, in both or in neither, with a body that is empty or not.  The     *)
(* message goes through the stream scanner and ParseBody, and handleData   *)
(* goes on with the nonce FindNonceWithFallback returned.                  *)
(***************************************************************************)
EmptyLeaf == Leaf("text/plain", "", EmptyString)

HeaderBlocks ==
    {<<<<" ", "a">>>>} \cup
    {<<<<" ", "a">>, <<" ">> \o smsBody(ShortNonceText(n))>> : n \in Nonces}

HeaderMessages ==
    {[from |-> f, entity |-> e] :
        f \in HeaderBlocks,
        e \in {EmptyLeaf, PlainNone} \cup
              {Leaf("text/plain", "", smsBody(ShortNonceText(n))) : n \in Nonces}}

NextHeader ==
    \/ Tick
    \/ InitAuthBegin
    \/ InitAuthNonce
    \/ \E m \in HeaderMessages : CallStreamExtract(m, 0)
    \/ CallParseBody
    \/ MimeReturn
    \/ NewSession(1, TRUE)
    \/ Mail(1, 1)
    \/ DataParsed(1)
    \/ TakeGet(1)
    \/ TakeDelete(1)
    \/ StoreVerified(1)
    \/ Logout(1)

SpecHeader == Init /\ [][NextHeader]_vars

(***************************************************************************)
(* The process: main waits for SIGINT or SIGTERM, cancels the context the  *)
(* SMTP server was started with and shuts the HTTP server down; the        *)
(* goroutine of Server.Run closes the SMTP server once the context is      *)
(* done.  proc.main is the position of main, proc.inflight the number of   *)
(* HTTP requests being served.                                             *)
(***************************************************************************)
Signals == {"SIGINT", "SIGTERM"}

\* the process has not exited
Alive == proc.main # "returned"

\* <-signalCh; the signal is taken while the clock can still reach the
\* deadline of the shutdown
Signal(sig) ==
    /\ proc.main = "waiting"
    /\ now + ShutdownTimeoutSeconds <= MaxTime
    /\ proc' = [proc EXCEPT !.main = "signalled", !.signal = sig]
    /\ UNCHANGED <<now, cache, stripes, limit, settings, reported, client, sv, mime, http,
                   sc, lr, extract, init, issued, sess, chk, takes, consumed, accepted>>

\* cancel()
MainCancel ==
    /\ proc.main = "signalled"
    /\ proc' = [proc EXCEPT !.main = "cancelled", !.ctx = "cancelled"]
    /\ UNCHANGED <<now, cache, stripes, limit, settings, reported, client, sv, mime, http,
                   sc, lr, extract, init, issued, sess, chk, takes, consumed, accepted>>

\* server.Shutdown(shutdownCtx) begins: the listener is closed and the
\* deadline of context.WithTimeout is set
MainShutdown ==
    /\ proc.main = "cancelled"
    /\ proc' = [proc EXCEPT !.main = "shutdown",
                            !.deadline = now + ShutdownTimeoutSeconds,
                            !.http = IF proc.http = "serving" THEN "closing" ELSE @]
    /\ UNCHANGED <<now, cache, stripes, limit, settings, reported, client, sv, mime, http,
                   sc, lr, extract, init, issued, sess, chk, takes, consumed, accepted>>

\* a Shutdown that waits for the requests in flight without a deadline
ShutdownDoneUnbounded(inflight, t, deadline) == inflight = 0

\* server.Shutdown returns: no connection is active, or shutdownCtx is done
ShutdownDone(inflight, t, deadline) == inflight = 0 \/ t >= deadline

\* server.Shutdown returns and main returns; the process exits with
\* whatever the goroutines have not done yet
ShutdownReturn ==
    /\ proc.main = "shutdown"
    /\ ShutdownDone(proc.inflight, now, proc.deadline)
    /\ proc' = [proc EXCEPT !.main = "returned",
                            !.http = IF proc.http = "closing" THEN "closed" ELSE @,
                            !.smtp = IF proc.smtp = "listening" THEN "exited" ELSE @]
    /\ UNCHANGED <<now, cache, stripes, limit, settings, reported, client, sv, mime, http,
                   sc, lr, extract, init, issued, sess, chk, takes, consumed, accepted>>

\* Server.Run: <-ctx.Done(); server.Close()
SMTPClose ==
    /\ Alive
    /\ proc.ctx = "cancelled"
    /\ proc.smtp = "listening"
    /\ proc' = [proc EXCEPT !.smtp = "closed"]
    /\ UNCHANGED <<now, cache, stripes, limit, settings, reported, client, sv, mime, http,
                   sc, lr, extract, init, issued, sess, chk, takes, consumed, accepted>>

\* server.ListenAndServe returns an error other than ErrServerClosed: cancel()
HTTPServeFails ==
    /\ proc.main = "waiting"
    /\ proc.http = "serving"
    /\ proc.inflight = 0
    /\ proc' = [proc EXCEPT !.http = "failed", !.ctx = "cancelled"]
    /\ UNCHANGED <<now, cache, stripes, limit, settings, reported, client, sv, mime, http,
                   sc, lr, extract, init, issued, sess, chk, takes, consumed, accepted>>

\* an HTTP request is accepted; its handler (InitAuth, in SpecShutdown)
\* returns
HTTPBegin ==
    /\ Alive
    /\ proc.http = "serving"
    /\ proc.inflight = 0
    /\ proc' = [proc EXCEPT !.inflight = 1]
    /\ UNCHANGED <<now, cache, stripes, limit, settings, reported, client, sv, mime, http,
                   sc, lr, extract, init, issued, sess, chk, takes, consumed, accepted>>

HTTPEnd ==
    /\ Alive
    /\ proc.inflight > 0
    /\ init.pc = "idle"
    /\ proc' = [proc EXCEPT !.inflight = @ - 1]
    /\ UNCHANGED <<now, cache, stripes, limit, settings, reported, client, sv, mime, http,
                   sc, lr, extract, init, issued, sess, chk, takes, consumed, accepted>>

\* the clock; the timer of shutdownCtx fires at its deadline, and between
\* the signal and Shutdown the clock stays where the deadline can be reached
ProcTick ==
    /\ Alive
    /\ ~(proc.main = "shutdown" /\ now >= proc.deadline)
    /\ proc.main \in {"signalled", "cancelled"} =>
           now + 1 + ShutdownTimeoutSeconds <= MaxTime
    /\ Tick

\* an SPF check that takes no notice of its context
SPFIgnoringContext(ctx) == {"pass"}

\* spf.CheckHostWithSender(..., spf.WithContext(spfCtx)) for a sender of the
\* carrier gateway: pass, unless the context is done, when the DNS lookups
\* fail and the result is anything but pass
SPFUnderContext(ctx) ==
    IF ctx = "cancelled" THEN SPFOutcomes \ {"pass"} ELSE {"pass"}

\* session.Data: handleData under context.WithTimeout(s.ctx, 10s), s.ctx
\* being the context Server.Run was given
DataUnderContext(d) ==
    \E n \in Nonces, o \in SPFUnderContext(proc.ctx) :
        Data(d, DataSizeLimitBytes, NoSender, n, o, o)

(***************************************************************************)
(* SpecShutdown: the process with one HTTP request at a time, each calling *)
(* InitAuth, and one SMTP session, until main returns.  Sessions are       *)
(* accepted and commands arrive while the SMTP server is open; a handler   *)
(* that is running goes on until the process exits.  The steps of main and *)
(* of the goroutine that closes the SMTP server are taken when they can    *)
(* be, and the clock goes on.                                              *)
(***************************************************************************)
NextShutdown ==
    \/ \E sig \in Signals : Signal(sig)
    \/ MainCancel
    \/ MainShutdown
    \/ ShutdownReturn
    \/ SMTPClose
    \/ HTTPServeFails
    \/ HTTPBegin
    \/ HTTPEnd
    \/ ProcTick
    \/ Alive /\ proc.inflight = 1 /\ InitAuthBegin
    \/ Alive /\ proc.inflight = 1 /\ InitAuthNonce
    \/ Alive /\ proc.smtp = "listening" /\ NewSession(1, TRUE)
    \/ Alive /\ proc.smtp = "listening" /\ Mail(1, 1)
    \/ Alive /\ proc.smtp = "listening" /\ DataUnderContext(1)
    \/ Alive /\ TakeGet(1)
    \/ Alive /\ TakeDelete(1)
    \/ Alive /\ StoreVerified(1)

SpecShutdown ==
    /\ Init
    /\ [][NextShutdown]_vars
    /\ WF_vars(MainCancel)
    /\ WF_vars(MainShutdown)
    /\ WF_vars(ShutdownReturn)
    /\ WF_vars(SMTPClose)
    /\ WF_vars(ProcTick)

(***************************************************************************)
(* SpecStore: the store on its own, one caller of Get and Take while       *)
(* SetEx calls with any ttl and the clock go on.                           *)
(***************************************************************************)
StoreKeys   == {AuthKey(1), NonceKey(1)}
StoreValues == {PlainAuthID(1), NotJSON}
StoreTTLs   == (0 - 1)..VerifiedTTLSeconds

InitStore ==
    /\ now = 0
    /\ cache = [k \in Keys |-> ErrEntryNotFound]
    /\ stripes = [s \in 0..(lockStripeCount - 1) |-> 0]
    /\ limit = DataSizeLimitBytes
    /\ init = IdleInit
    /\ issued = {}
    /\ sess = [d \in Deliveries |-> NewSessionState]
    /\ chk = IdleCheck
    /\ settings = DefaultSettings
    /\ NoRequests
    /\ NoHistory

NextStore ==
    \/ Tick
    \/ \E key \in StoreKeys, value \in StoreValues, ttl \in StoreTTLs :
           ClientSetEx(key, value, ttl)
    \/ \E key \in StoreKeys : ClientGet(key)
    \/ ClientGetDelete
    \/ \E key \in StoreKeys : ClientTake(key)
    \/ ClientTakeDelete
    \/ ClientReturn

SpecStore == InitStore /\ [][NextStore]_vars

(***************************************************************************)
(* SpecVerified: challenges are issued and StoreVerified is called for the *)
(* first of them any number of times, with and without a phone and a       *)
(* carrier.                                                                *)
(***************************************************************************)
PhoneArguments   == {NilPhone, PtrTo(<<"0", "1">>)}
CarrierArguments == {NilCarrier, PtrTo("KT")}

NextVerified ==
    \/ Tick
    \/ InitAuthBegin
    \/ InitAuthNonce
    \/ \E phone \in PhoneArguments, carrier \in CarrierArguments :
           CallStoreVerified(FirstChallenge, phone, carrier)

SpecVerified == InitStore /\ [][NextVerified]_vars

(***************************************************************************)
(* SpecRcpt: the commands of one session before DATA, for every configured *)
(* inbound address.                                                        *)
(***************************************************************************)
\* VERIFY@Example.COM
VerifyMixedCase == <<"V", "E", "R", "I", "F", "Y", "@", "E", "x", "a", "m", "p", "l", "e", ".", "C", "O", "M">>
\* blocked@example.com
BlockedExampleCom == <<"b", "l", "o", "c", "k", "e", "d", "@", "e", "x", "a", "m", "p", "l", "e", ".", "c", "o", "m">>

\* SMS_INBOUND_ADDRESS: unset (the default), set, set to nothing
InboundAddresses ==
    {VerifyExampleCom, Padded(VerifyMixedCase), EmptyString, <<" ">>}

Recipients ==
    {VerifyExampleCom, VerifyMixedCase, Padded(VerifyExampleCom),
     BlockedExampleCom, EmptyString}

InitRcpt ==
    /\ now = 0
    /\ cache = [k \in Keys |-> ErrEntryNotFound]
    /\ stripes = [s \in 0..(lockStripeCount - 1) |-> 0]
    /\ limit = DataSizeLimitBytes
    /\ init = IdleInit
    /\ issued = {}
    /\ sess = [d \in Deliveries |-> NewSessionState]
    /\ chk = IdleCheck
    /\ settings \in {[DefaultSettings EXCEPT !.SMSInboundAddress = a] :
                         a \in InboundAddresses}
    /\ NoRequests
    /\ NoHistory

NextRcpt ==
    \/ NewSession(1, TRUE)
    \/ Mail(1, 1)
    \/ \E to \in Recipients : Rcpt(1, to)
    \/ Reset(1)

SpecRcpt == InitRcpt /\ [][NextRcpt]_vars

(***************************************************************************)
(* SpecSigned: the HTTP surface and the service calls behind it, with and  *)
(* without a signer, over every auth entry a SetEx can have written.       *)
(***************************************************************************)
RequestIDs ==
    {AuthIDText(a) : a \in AuthIds} \cup {Padded(AuthIDText(a)) : a \in AuthIds} \cup
    { Repeat("0", authIDLen - 2) \o <<"A", "f">>,      \* well formed, never issued
      Repeat("0", authIDLen - 1),                      \* one digit short
      Repeat("0", authIDLen + 1),                      \* one digit long
      Repeat("0", authIDLen - 1) \o <<"g">>,           \* not a hex digit
      <<"n", "o", "t", "-", "v", "a", "l", "i", "d">>,
      <<" ">>, EmptyString }

InitSigned ==
    /\ now = 0
    /\ cache \in {c \in [Keys -> StoredEntries] :
                      \A n \in Nonces : c[NonceKey(n)] = ErrEntryNotFound}
    /\ stripes = [s \in 0..(lockStripeCount - 1) |-> 0]
    /\ limit = DataSizeLimitBytes
    /\ init = IdleInit
    /\ issued = {}
    /\ sess = [d \in Deliveries |-> NewSessionState]
    /\ chk = IdleCheck
    /\ settings \in {[DefaultSettings EXCEPT !.JWTPrivateKeyPEM = k] :
                         k \in {EmptyString, PrivateKeyPEM}}
    /\ NoRequests
    /\ NoHistory

NextSigned ==
    \/ Tick
    \/ \E id \in RequestIDs : CallCheckAuth(id)
    \/ \E id \in RequestIDs : CallCheckSigned(id)
    \/ CallJWKS
    \/ \E id \in RequestIDs : authCheckHandler(id)
    \/ \E id \in RequestIDs : authCheckSignedHandler(id)
    \/ jwksHandler
    \/ Respond

SpecSigned == InitSigned /\ [][NextSigned]_vars

(***************************************************************************)
(* Properties of Spec: the one-time consume of a nonce.                    *)
(***************************************************************************)
Issued(n) == \E r \in issued : r.nonce = n

MidTake(n) == \E d \in Deliveries : sess[d].pc = "delete" /\ sess[d].nonce = n

FirstConsumeReturnsAuthID ==
    \A d \in Deliveries :
        sess[d].pc \in {"store", "done"} =>
            /\ sess[d].takeFirst =>
                   /\ sess[d].ok
                   /\ \E r \in issued : r.nonce = sess[d].nonce
                                          /\ r.authID = sess[d].authID
            /\ sess[d].takeAfter => ~sess[d].ok /\ sess[d].authID = 0

\* a first consume returned the auth_id and a later one returned ok = false
ConsumedThenRefused ==
    \E d, e \in Deliveries :
        /\ sess[d].pc \in {"store", "done"} /\ sess[d].takeFirst /\ sess[d].ok
        /\ sess[e].pc = "done" /\ sess[e].nonce = sess[d].nonce
        /\ sess[e].takeAfter /\ sess[e].takeLive /\ ~sess[e].ok

(***************************************************************************)
(* Properties of SpecPoll: what a polling client is told.                  *)
(***************************************************************************)
AuthAt(a) == (CHOOSE r \in issued : r.authID = a).authAt

\* C7: for an issued auth_id with no delivery accepted so far, CheckAuth
\* returns waiting when called before AuthTTL has elapsed since InitAuth
\* wrote the auth entry, and expired when called after.
WaitingUntilAuthTTL ==
    (chk.pc = "done" /\ chk.known /\ chk.acc.n = 0) =>
        IF chk.at < AuthAt(chk.authID) + AuthTTLSeconds
        THEN chk.status = "waiting"
        ELSE chk.status = "expired"

\* a poll made at the second the auth entry expires, answered expired
ExpiredAtAuthTTL ==
    /\ chk.pc = "done" /\ chk.known /\ chk.acc.n = 0
    /\ chk.at = AuthAt(chk.authID) + AuthTTLSeconds
    /\ chk.status = "expired"

\* C8: once a delivery has been accepted with phone p and carrier c,
\* CheckAuth called before VerifiedTTL has elapsed since that write returns
\* verified with p, c and an RFC 3339 timestamp.
VerifiedUntilVerifiedTTL ==
    (chk.pc = "done" /\ chk.acc.n > 0 /\ chk.at < chk.acc.at + VerifiedTTLSeconds) =>
        /\ chk.status = "verified"
        /\ chk.phone = chk.acc.phone /\ chk.phone # EmptyString
        /\ chk.carrier = chk.acc.carrier
        /\ IsRFC3339(chk.timestamp)

(***************************************************************************)
(* Properties of SpecData: the DATA handler on one delivery.               *)
(***************************************************************************)
OverLimit(s) == readData(s.size, limit).overLimit

\* the delivery was within the size limit and not rejected by the SPF step
ReachedSelection(s) ==
    /\ s.pc \in {"take", "delete", "store", "done"}
    /\ ~OverLimit(s)
    /\ ~(s.peerKnown /\ s.envResult # "pass" /\ s.hdrResult # "pass")

NothingVerified ==
    /\ \A a \in AuthIds : accepted[a].n = 0
    /\ \A n \in Nonces : consumed[n] = 0

\* C3: when the peer IP is known, the phone/carrier pair of every verified
\* record comes from a sender whose own SPF result was pass: the domain
\* ExtractPhoneAndCarrier matched the pair at is the domain of the address
\* that was handed to the SPF check.
SelectedPairFromSPFCheckedAddress ==
    \A d \in Deliveries :
        (sess[d].stored /\ sess[d].peerKnown) =>
            LET i == IF sess[d].src = "env" THEN sess[d].mailFrom
                     ELSE sess[d].headerFrom
                result == IF sess[d].src = "env" THEN sess[d].envResult
                          ELSE sess[d].hdrResult
            IN  /\ result = "pass"
                /\ MatchedBy[i].found
                /\ ToLower(MatchedBy[i].domain) = ToLower(DomainOf(Sanitized[i]))

\* C4: when the peer IP is known and neither SPF result is pass, the reply
\* is 451 SPF temperror if either result is temperror and 550 SPF fail
\* otherwise; no nonce is consumed and no verified record is written.
SPFRejectionReplies ==
    \A d \in Deliveries :
        (sess[d].pc = "done" /\ ~OverLimit(sess[d]) /\ sess[d].peerKnown
             /\ sess[d].envResult # "pass" /\ sess[d].hdrResult # "pass") =>
            /\ sess[d].reply =
                   IF "temperror" \in {sess[d].envResult, sess[d].hdrResult}
                   THEN "451 SPF temperror" ELSE "550 SPF fail"
            /\ ~sess[d].stored /\ ~sess[d].ok
            /\ NothingVerified

\* both SPF results are fail, the header From names a carrier: 550 SPF fail
SPFFailWithRecognizedHeader ==
    \E d \in Deliveries :
        /\ sess[d].pc = "done" /\ sess[d].peerKnown
        /\ sess[d].envResult = "fail" /\ sess[d].hdrResult = "fail"
        /\ ~Extracted[sess[d].headerFrom].carrier.nil
        /\ sess[d].reply = "550 SPF fail"
        /\ issued # {} /\ NothingVerified

\* C5: a delivery that reaches the selection (within the size limit, not
\* rejected by the SPF step) takes phone and carrier from the envelope
\* sender when its carrier is recognized and (the peer IP is unknown or
\* its SPF passed); otherwise from the header From under the same rule;
\* otherwise it is answered 550 Invalid carrier domain.  A sender whose
\* carrier is not recognized is never selected.
SelectionPrecedence ==
    \A d \in Deliveries :
        ReachedSelection(sess[d]) =>
            LET s   == sess[d]
                env == Extracted[s.mailFrom]
                hdr == Extracted[s.headerFrom]
            IN  IF ~env.carrier.nil /\ (~s.peerKnown \/ s.envResult = "pass") THEN
                    s.src = "env" /\ s.phone = env.phone /\ s.carrier = env.carrier
                ELSE IF ~hdr.carrier.nil /\ (~s.peerKnown \/ s.hdrResult = "pass") THEN
                    s.src = "hdr" /\ s.phone = hdr.phone /\ s.carrier = hdr.carrier
                ELSE /\ s.pc = "done" /\ s.reply = "550 Invalid carrier domain"
                     /\ s.src = "none" /\ s.carrier.nil /\ ~s.stored

\* the envelope sender passed SPF but names no carrier: the header From,
\* which passed too, was selected and its pair stored
HeaderSelectedOverPassedEnvelope ==
    \E d \in Deliveries :
        /\ sess[d].pc = "done" /\ sess[d].stored /\ sess[d].peerKnown
        /\ sess[d].envResult = "pass" /\ Extracted[sess[d].mailFrom].carrier.nil
        /\ sess[d].hdrResult = "pass" /\ sess[d].src = "hdr"
        /\ sess[d].carrier = Extracted[sess[d].headerFrom].carrier

\* C6: a stream of more than limit bytes (limit > 0) is answered 552 Message
\* size exceeds limit with nothing parsed, no nonce consumed and no record
\* written; a stream of exactly limit bytes, and any stream when
\* limit <= 0, is not answered 552.
OversizeRejectedUnprocessed ==
    \A d \in Deliveries :
        sess[d].pc = "done" =>
            IF limit > 0 /\ sess[d].size > limit THEN
                /\ sess[d].reply = "552 Message size exceeds limit"
                /\ sess[d].src = "none" /\ sess[d].nonce = 0
                /\ sess[d].envResult = NotEvaluated /\ sess[d].hdrResult = NotEvaluated
                /\ ~sess[d].ok /\ ~sess[d].stored
                /\ NothingVerified
            ELSE sess[d].reply # "552 Message size exceeds limit"

\* a stream one byte over a positive limit was answered 552 while a
\* challenge was open
OversizeAnswered552 ==
    \E d \in Deliveries :
        /\ sess[d].pc = "done" /\ limit > 0 /\ sess[d].size = limit + 1
        /\ sess[d].reply = "552 Message size exceeds limit"
        /\ issued # {} /\ NothingVerified

(***************************************************************************)
(* Properties of SpecCheckAuth.                                            *)
(***************************************************************************)
\* C10: CheckAuth returns expired when the auth entry is absent (or has
\* expired), the stored status, phone, carrier and timestamp when the
\* payload parses and declares verified, and waiting with no other field
\* for every other payload, one that is not JSON included; it returns no
\* error.
CheckAuthByStoredPayload ==
    chk.pc = "done" =>
        LET e == CacheGet(cache, AuthKey(chk.authID))
            response == [status |-> chk.status, phone |-> chk.phone,
                         carrier |-> chk.carrier, timestamp |-> chk.timestamp]
            empty(st) == [status |-> st, phone |-> EmptyString, carrier |-> "",
                          timestamp |-> EmptyString]
        IN  /\ ~chk.err
            /\ IF ~e.present \/ chk.at >= e.expiresAt THEN
                   response = empty("expired")
               ELSE IF e.value.kind = "json" /\ e.value.status = "verified" THEN
                   response = [status |-> "verified", phone |-> e.value.phone,
                               carrier |-> e.value.carrier,
                               timestamp |-> e.value.timestamp]
               ELSE response = empty("waiting")

\* a live entry whose payload is not JSON was answered waiting
NotJSONAnsweredWaiting ==
    /\ chk.pc = "done" /\ chk.status = "waiting" /\ ~chk.err
    /\ CacheGet(cache, AuthKey(chk.authID)).present
    /\ CacheGet(cache, AuthKey(chk.authID)).value = NotJSON
    /\ chk.at < CacheGet(cache, AuthKey(chk.authID)).expiresAt

(***************************************************************************)
(* Properties of SpecSigned: the id check, the signer, the HTTP statuses.  *)
(***************************************************************************)
\* a string of exactly 32 characters, each of them 0-9, a-f or A-F
WellFormed(id) ==
    /\ Len(id) = 32
    /\ \A i \in 1..Len(id) :
           id[i] \in {"0", "1", "2", "3", "4", "5", "6", "7", "8", "9",
                      "a", "b", "c", "d", "e", "f", "A", "B", "C", "D", "E", "F"}

NoSignerAlwaysJWKSUnavailable ==
    (http.pc = "done" /\ settings.JWTPrivateKeyPEM = EmptyString) =>
        /\ http.route = "JWKS" => http.detail = "jwks_unavailable"
        /\ (http.route = "CheckSigned" /\ WellFormed(http.id)) =>
               http.detail = "jwks_unavailable"

\* the record the request found is a verified one
FoundVerified ==
    http.found /\ http.value.kind = "json" /\ http.value.status = "verified"

\* C13: CheckSigned returns a non-empty token only when a signer is
\* configured, the stored record is verified and its phone is non-empty; with
\* a signer a verified record without a phone yields waiting and no token;
\* without a signer no token is ever returned.
TokenOnlyForVerifiedPhoneWithSigner ==
    (http.pc = "done" /\ http.route = "CheckSigned") =>
        /\ http.token # EmptyString =>
               /\ settings.JWTPrivateKeyPEM # EmptyString
               /\ FoundVerified
               /\ http.value.phone # EmptyString
               /\ http.status = "verified"
        /\ (settings.JWTPrivateKeyPEM # EmptyString /\ WellFormed(http.id)
            /\ FoundVerified /\ http.value.phone = EmptyString) =>
               /\ http.status = "waiting"
               /\ http.token = EmptyString
               /\ http.detail = ""
        /\ settings.JWTPrivateKeyPEM = EmptyString => http.token = EmptyString

\* with a signer, CheckSigned found a verified record without a phone and
\* answered waiting
VerifiedWithoutPhoneWaits ==
    /\ http.pc = "done" /\ http.route = "CheckSigned"
    /\ settings.JWTPrivateKeyPEM # EmptyString
    /\ FoundVerified /\ http.value.phone = EmptyString
    /\ http.status = "waiting" /\ http.token = EmptyString

SameAddress(to, inboundAddress) ==
    ToLower(TrimSpace(to)) = ToLower(TrimSpace(inboundAddress))

RcptAccepted(s) ==
    s.rcpt.code = 0 /\ s.rcptTos = Append(s.rcpt.before, s.rcpt.to)

RcptRefused(s) ==
    s.rcpt.code = 550 /\ s.rcptTos = s.rcpt.before

PassedSelection(s) == ReachedSelection(s) /\ ~s.carrier.nil

\* the delivery's nonce had no unexpired entry when the take was made: it
\* was never issued, its AuthTTL had elapsed, or it had been consumed
NoUnexpiredEntry(s) == s.nonce # 0 /\ (~s.takeLive \/ s.takeAfter)

\* C16: a delivery that passed SPF and carrier selection, and whose message
\* holds no valid nonce or a nonce with no unexpired entry in the store, is
\* answered 550 Invalid nonce and writes no verified record.
InvalidNonceRejected ==
    \A d \in Deliveries :
        (sess[d].pc = "done" /\ PassedSelection(sess[d])
         /\ (sess[d].nonce = 0 \/ NoUnexpiredEntry(sess[d]))) =>
            /\ sess[d].reply = "550 Invalid nonce"
            /\ ~sess[d].ok /\ ~sess[d].stored
            /\ sess[d].authID = 0

\* a delivery without a nonce and one whose nonce had expired were both
\* answered 550 Invalid nonce
NoNonceAndExpiredNonceRefused ==
    \E d, e \in Deliveries :
        /\ sess[d].pc = "done" /\ PassedSelection(sess[d]) /\ sess[d].nonce = 0
        /\ sess[d].reply = "550 Invalid nonce"
        /\ sess[e].pc = "done" /\ PassedSelection(sess[e]) /\ sess[e].nonce # 0
        /\ \E r \in issued : r.nonce = sess[e].nonce
        /\ ~sess[e].takeLive /\ ~sess[e].takeAfter
        /\ sess[e].reply = "550 Invalid nonce"

(***************************************************************************)
(* Properties of SpecFaults: store errors.                                 *)
(***************************************************************************)
\* C17: when the nonce take or StoreVerified returns an error, the DATA
\* handler replies 451 Temporary server error and the delivery ends with
\* result fail and stored = false; 250 is the reply only of a delivery whose
\* StoreVerified returned nil, having written the record.
StoreErrorAnswered451 ==
    \A d \in Deliveries :
        sess[d].pc = "done" =>
            /\ sess[d].storeErr # "" =>
                   /\ sess[d].reply = "451 Temporary server error"
                   /\ sess[d].result = "fail" /\ ~sess[d].stored
            /\ sess[d].reply = "250" =>
                   /\ sess[d].storeErr = ""
                   /\ sess[d].stored /\ sess[d].result = "pass"
                   /\ accepted[sess[d].authID].n > 0

\* one delivery's take succeeded and its StoreVerified failed; another's
\* take failed
TakeAndStoreErrors ==
    \E d, e \in Deliveries :
        /\ sess[d].pc = "done" /\ sess[d].storeErr = "store" /\ sess[d].ok
        /\ sess[d].reply = "451 Temporary server error"
        /\ sess[e].pc = "done" /\ sess[e].storeErr = "take"
        /\ sess[e].reply = "451 Temporary server error"

(***************************************************************************)
(* Properties of SpecScan: what the matcher reports.                       *)
(***************************************************************************)
\* [MAPAE: in any case, then exactly nonceHexLength hex digits, then ],
\* starting at position i of the bytes
NonceAt(bytes, i) ==
    /\ i + 7 + nonceHexLength <= Len(bytes)
    /\ ToLower(SubSeq(bytes, i, i + 6)) = <<"[", "m", "a", "p", "a", "e", ":">>
    /\ \A j \in (i + 7)..(i + 6 + nonceHexLength) :
           bytes[j] \in {"0", "1", "2", "3", "4", "5", "6", "7", "8", "9",
                         "a", "b", "c", "d", "e", "f", "A", "B", "C", "D", "E", "F"}
    /\ bytes[i + 7 + nonceHexLength] = "]"

\* the digits of the first occurrence, or the empty string
FirstNonce(bytes) ==
    LET at == {i \in 1..Len(bytes) : NonceAt(bytes, i)}
    IN  IF at = {} THEN EmptyString
        ELSE LET i == CHOOSE k \in at : \A j \in at : k <= j
             IN  SubSeq(bytes, i + 7, i + 6 + nonceHexLength)

\* C18: fed any byte sequence, the matcher reports a nonce exactly when the
\* bytes contain, in any case, [MAPAE: followed at once by exactly
\* nonceHexLength hex digits and then ]; it reports the digits of the first
\* such occurrence, and nothing for a candidate with fewer or more digits or
\* with whitespace or another byte in the hex region.
ScannerReportsFirstNonce == sc.found = FirstNonce(sc.fed)

\* a nonce was reported though the bytes begin with a prefix that breaks off
NonceAfterBrokenPrefix ==
    /\ sc.found # EmptyString
    /\ sc.fed[1] = "[" /\ ~NonceAt(sc.fed, 1)
    /\ NonceAt(sc.fed, 5)

(***************************************************************************)
(* Properties of SpecStream: the size limit.                               *)
(***************************************************************************)
\* C19: with limit > 0, StreamExtractHeaderFromAndNonce returns
\* ErrMessageTooLarge for every input longer than limit bytes, wherever a
\* nonce occurs in it, never takes more than limit+1 bytes from the source,
\* and never returns ErrMessageTooLarge for an input of at most limit bytes.
LimitEnforcedWhereverNonce ==
    lr.limit > 0 =>
        /\ lr.size - Len(lr.r) <= lr.limit + 1
        /\ lr.pc = "done" =>
               IF lr.size > lr.limit
               THEN lr.err = "message_too_large"
               ELSE lr.err # "message_too_large"

(***************************************************************************)
(* Properties of SpecExtract.                                              *)
(***************************************************************************)
Digits == {"0", "1", "2", "3", "4", "5", "6", "7", "8", "9"}
Letters ==
    {"a", "b", "c", "d", "e", "f", "g", "h", "i", "j", "k", "l", "m", "n", "o",
     "p", "q", "r", "s", "t", "u", "v", "w", "x", "y", "z",
     "A", "B", "C", "D", "E", "F", "G", "H", "I", "J", "K", "L", "M", "N", "O",
     "P", "Q", "R", "S", "T", "U", "V", "W", "X", "Y", "Z"}

\* n characters from position i, 9 to 13 of them, each a digit or a dash,
\* followed by @ and at least one character of a domain
PhoneRunAt(a, i, n) ==
    /\ 9 <= n /\ n <= 13 /\ i >= 1 /\ i + n + 1 <= Len(a)
    /\ \A j \in i..(i + n - 1) : a[j] \in Digits \cup {"-"}
    /\ a[i + n] = "@"
    /\ a[i + n + 1] \in Digits \cup Letters \cup {".", "-"}

PhoneRuns(a) == {c \in (1..Len(a)) \X (9..13) : PhoneRunAt(a, c[1], c[2])}

\* the domain after the @ at position p: the characters up to the first one
\* that cannot be part of a domain
DomainAfter(a, p) ==
    LET stop == {j \in (p + 1)..Len(a) : a[j] \notin Digits \cup Letters \cup {".", "-"}}
        e    == IF stop = {} THEN Len(a)
                ELSE (CHOOSE j \in stop : \A k \in stop : j <= k) - 1
    IN  SubSeq(a, p + 1, e)

CarrierOf(domain) ==
    IF ToLower(domain) = VmmsNateCom THEN "SKT"
    ELSE IF ToLower(domain) = MmsKtCoKr THEN "KT"
    ELSE IF ToLower(domain) = MmsmailUplusCoKr THEN "LGU+"
    ELSE ""

\* C20: ExtractPhoneAndCarrier returns, for the first substring of 9 to 13
\* digit-or-dash characters followed by @ and a domain, the digits with every
\* non-digit removed and the carrier of the lower-cased domain (SKT, KT,
\* LGU+); for an unknown domain the phone and no carrier; for blank or
\* non-matching input neither.
ExtractsFirstPhoneAndCarrier ==
    extract.pc = "done" =>
        LET a    == extract.fromAddress
            runs == PhoneRuns(a)
        IN  IF runs = {} \/ \A i \in 1..Len(a) : a[i] = " " THEN
                extract.phone.nil /\ extract.carrier.nil
            ELSE
                LET c == CHOOSE x \in runs : \A y \in runs : x[1] <= y[1]
                    run == SubSeq(a, c[1], c[1] + c[2] - 1)
                    carrier == CarrierOf(DomainAfter(a, c[1] + c[2]))
                IN  /\ ~extract.phone.nil
                    /\ extract.phone.v = SelectSeq(run, LAMBDA ch : ch \in Digits)
                    /\ IF carrier = "" THEN extract.carrier.nil
                       ELSE ~extract.carrier.nil /\ extract.carrier.v = carrier

\* a dashed number at a carrier domain written in capitals, second in a
\* list, gave the digits and SKT
DashedSecondAddressExtracted ==
    /\ extract.pc = "done"
    /\ Len(extract.fromAddress) > 0 /\ extract.fromAddress[1] = "x"
    /\ \E i \in 1..Len(extract.fromAddress) : extract.fromAddress[i] = "-"
    /\ ~extract.phone.nil
    /\ extract.phone.v = <<"0", "1", "0", "1", "2", "3", "4", "5", "6", "7", "8">>
    /\ ~extract.carrier.nil /\ extract.carrier.v = "SKT"
    /\ \E i \in 1..Len(extract.fromAddress) : extract.fromAddress[i] = "N"

(***************************************************************************)
(* Properties of SpecStore: SetEx, Get and Take.                           *)
(***************************************************************************)
\* C21: SetEx with ttl_seconds <= 0 returns an error and leaves the store
\* unchanged: no entry is created, and an entry already under the key keeps
\* its value and expiry.  (A step that leaves the caller's position and the
\* clock alone is a SetEx, and client.set is then the record of that call.)
SetExRefusesNonPositiveTTL ==
    [][(client'.pc = client.pc /\ now' = now /\ client'.set.ttl <= 0) =>
           (client'.set.err /\ cache' = cache)]_vars

\* a SetEx with ttl 0 on a key that holds an entry returned an error and the
\* entry is still there
NonPositiveTTLRefusedOverEntry ==
    /\ client.set.called /\ client.set.ttl = 0 /\ client.set.err
    /\ client.set.had /\ cache[client.set.key].present

\* C22: Get and Take never return found = true for an entry whose expiry
\* time has been reached; such an entry is reported absent with no error and
\* no value, so a Take of it is no successful consume.
ExpiredEntryNeverReturned ==
    client.pc = "done" =>
        /\ client.ok => (client.raw.present /\ client.at < client.raw.expiresAt)
        /\ (client.raw.present /\ client.at >= client.raw.expiresAt) =>
               (~client.ok /\ ~client.err /\ client.value = NoValue)

\* a Take in the very second the entry expires returned not found
TakeAtExpiryAbsent ==
    /\ client.pc = "done" /\ client.op = "Take"
    /\ client.raw.present /\ client.at = client.raw.expiresAt
    /\ ~client.ok

(***************************************************************************)
(* Properties of SpecVerified: StoreVerified over a verified record.       *)
(***************************************************************************)
\* StoreVerified was called for an auth_id whose record was verified and live
OverVerifiedRecord ==
    /\ sv.called /\ ~sv.err
    /\ sv.prev.present /\ ~Expired(sv.prev, sv.at)
    /\ sv.prev.value.status = "verified"

\* C23: a later StoreVerified for an auth_id whose record is already verified
\* refreshes the timestamp but, when phone or carrier is supplied as nil,
\* keeps the previously stored phone and carrier.
LaterStoreVerifiedKeepsPhoneAndCarrier ==
    OverVerifiedRecord =>
        /\ sv.next.value.timestamp = FormatRFC3339(sv.at)
        /\ sv.phone.nil => sv.next.value.phone = sv.prev.value.phone
        /\ sv.carrier.nil => sv.next.value.carrier = sv.prev.value.carrier

(***************************************************************************)
(* Properties of SpecVerified: what InitAuth writes and returns.           *)
(***************************************************************************)
IsLowerHex(s, n) ==
    /\ Len(s) = n
    /\ \A i \in 1..Len(s) : s[i] \in Range(HexDigits)

\* C24: a successful InitAuth returns an auth_id of 32 lowercase hex
\* characters that the CheckAuth format check accepts, sms_body =
\* [MAPAE:<nonce>] with a nonce of 64 lowercase hex characters, link =
\* sms:<inbound>?body=<sms_body> and ttl_seconds = AuthTTL; its first write
\* puts auth:<auth_id> with status pending and its second nonce:<nonce> with
\* value auth_id, each with AuthTTL.
InitAuthWritesAndReturns ==
    [][/\ (init.pc = "idle" /\ init'.pc = "nonce") =>
              LET e == cache'[AuthKeyOfText(AuthIDText(init'.authID))]
              IN  /\ e.present
                  /\ e.value.kind = "json" /\ e.value.status = "pending"
                  /\ e.expiresAt = now + AuthTTLSeconds
       /\ (init.pc = "nonce" /\ init'.pc = "idle") =>
              LET r     == init'.resp
                  nonce == SubSeq(r.SMSBody, 8, Len(r.SMSBody) - 1)
              IN  /\ IsLowerHex(r.AuthID, 32)
                  /\ authIDRe(r.AuthID)
                  /\ Len(r.SMSBody) = 72
                  /\ SubSeq(r.SMSBody, 1, 7) = <<"[", "M", "A", "P", "A", "E", ":">>
                  /\ r.SMSBody[72] = "]"
                  /\ IsLowerHex(nonce, 64)
                  /\ r.Link = <<"s", "m", "s", ":">> \o settings.SMSInboundAddress
                                  \o <<"?", "b", "o", "d", "y", "=">> \o r.SMSBody
                  /\ r.TTLSeconds = AuthTTLSeconds
                  /\ \E n \in Nonces, a \in AuthIds :
                         /\ NonceText(n) = nonce /\ AuthIDText(a) = r.AuthID
                         /\ cache'[NonceKey(n)] =
                                [present |-> TRUE, value |-> PlainAuthID(a),
                                 expiresAt |-> now + AuthTTLSeconds]]_vars

\* InitAuth has returned and both of its entries are in the store
InitAuthReturnedBothWritten ==
    /\ init.pc = "idle" /\ init.resp.AuthID = AuthIDText(1)
    /\ cache[AuthKey(1)].present /\ cache[AuthKey(1)].value.status = "pending"
    /\ cache[NonceKey(1)].present

(***************************************************************************)
(* Properties of SpecData: the order of the steps of one delivery.         *)
(***************************************************************************)
RejectedBeforeConsume ==
    {"550 SPF fail", "451 SPF temperror", "550 Invalid carrier domain"}

SPFSatisfied(s) == ~s.peerKnown \/ s.envSPFOK \/ s.hdrSPFOK

\* C25: within one delivery the steps go parse, SPF, carrier selection, nonce
\* consume, verified write.  A delivery rejected for SPF or for an
\* unrecognized carrier is rejected straight from DATA, having neither read
\* nor consumed a nonce entry, and no step of it changes the store; a
\* delivery reaches the consume only with SPF satisfied and a carrier
\* selected; the verified record is written only after the consume has
\* returned an auth_id, and under that auth_id.
DeliveryStepsInOrder ==
    [][\A d \in Deliveries :
           sess'[d] # sess[d] =>
               /\ (sess'[d].pc = "done" /\ sess'[d].reply \in RejectedBeforeConsume) =>
                      /\ sess[d].pc = "mail"
                      /\ cache' = cache /\ takes' = takes /\ consumed' = consumed
                      /\ sess'[d].nonce = 0 /\ ~sess'[d].ok /\ ~sess'[d].stored
               /\ sess'[d].reply = "550 Invalid carrier domain" => SPFSatisfied(sess'[d])
               /\ (cache' # cache \/ takes' # takes \/ consumed' # consumed) =>
                      sess[d].pc \in {"take", "delete", "store"}
               /\ sess'[d].pc = "take" =>
                      /\ sess[d].pc = "mail"
                      /\ SPFSatisfied(sess'[d])
                      /\ sess'[d].src # "none" /\ ~sess'[d].carrier.nil
               /\ (sess'[d].stored /\ ~sess[d].stored) =>
                      /\ sess[d].pc = "store" /\ sess[d].ok
                      /\ consumed[sess[d].nonce] > 0
                      /\ sess[d].authID = sess[d].taken.ref
                      /\ cache'[AuthKey(sess[d].authID)].value.status = "verified"]_vars

\* a delivery was rejected for SPF while an issued nonce entry was in the
\* store, and no take of it was made
SPFRejectedNonceUntouched ==
    /\ sess[1].pc = "done" /\ sess[1].reply = "550 SPF fail"
    /\ cache[NonceKey(1)].present /\ takes[1] = 0

(***************************************************************************)
(* Properties of SpecMatcher: restarts and resets of the matcher.          *)
(***************************************************************************)
\* the matcher is at rest: state 0, no digits, nothing found
AtRest(s) == s.state = 0 /\ s.digits = EmptyString /\ s.found = EmptyString

\* C26: in every matcher state a mismatching byte equal to [ leaves the
\* matcher in state 1 rather than state 0, so a token that begins inside a
\* failed candidate is still found; in state 7 a ] arriving with a digit
\* count other than nonceHexLength, a whitespace byte, or one hex digit more
\* than nonceHexLength resets the matcher to state 0 with no digits.
BracketRestartsAndHexRegionResets ==
    [][LET b == sc'.fed[Len(sc'.fed)]
       IN  /\ sc.found = EmptyString =>
                  /\ b = "[" => (sc'.state = 1 /\ sc'.digits = EmptyString
                                               /\ sc'.found = EmptyString)
                  /\ (sc.state = 7 /\ b = "]" /\ Len(sc.digits) # nonceHexLength) =>
                         AtRest(sc')
                  /\ (sc.state = 7 /\ b \in {" ", "\r", "\n", "\t"}) => AtRest(sc')
                  /\ (sc.state = 7 /\ b \in HexChars
                                   /\ Len(sc.digits) = nonceHexLength) => AtRest(sc')
           /\ (\E i \in 1..Len(sc'.fed) : NonceAt(sc'.fed, i)) =>
                  sc'.found = FirstNonce(sc'.fed)]_vars

\* [MAPAE:[MAPAE:<digits>] was fed and the inner token was found
TokenInsideFailedCandidateFound ==
    /\ sc.fed = <<"[", "M", "A", "P", "A", "E", ":">> \o NonceToken
    /\ sc.found = Repeat("a", nonceHexLength)

(***************************************************************************)
(* Properties of SpecMime: the walk of the MIME tree.                      *)
(***************************************************************************)
\* the bytes a leaf decodes to, up to the first byte that cannot be decoded
LeafText(e) ==
    IF e.cte = "base64" THEN DecodeBase64Std(FilterWhitespace(e.raw)).bytes
    ELSE IF e.cte = "quoted-printable" THEN DecodeQuotedPrintable(e.raw).bytes
    ELSE e.raw

\* the decoded bytes of the leaves nested at most five deep, depth first
RECURSIVE TextWithinDepth(_, _)
RECURSIVE TextOfParts(_, _, _)
TextWithinDepth(e, depth) ==
    IF depth > 5 THEN EmptyString
    ELSE IF e.kind = "leaf" THEN LeafText(e)
    ELSE TextOfParts(e.parts, 1, depth)

TextOfParts(parts, i, depth) ==
    IF i > Len(parts) THEN EmptyString
    ELSE TextWithinDepth(parts[i], depth + 1) \o TextOfParts(parts, i + 1, depth)

IsPrefix(p, s) == Len(p) <= Len(s) /\ SubSeq(s, 1, Len(p)) = p

\* C28: with no limit in the way, the stream scanner scans every leaf nested
\* at MIME depth at most 5 (the top-level entity being depth 0), up to the
\* leaf in which it finds a nonce, and never scans or reports a nonce from
\* an entity nested deeper than 5.
ScansLeavesToDepthFive ==
    (mime.pc = "streamed" /\ mime.limit = 0) =>
        LET text == TextWithinDepth(mime.msg.entity, 0)
        IN  /\ mime.stream.err = ""
            /\ mime.stream.nonce = FirstNonce(text)
            /\ IsPrefix(mime.stream.scanned, text)
            /\ mime.stream.nonce = EmptyString => mime.stream.scanned = text

\* a message whose only nonce is in a leaf six multiparts deep gave no nonce
NonceAtDepthSixNotReported ==
    /\ mime.pc = "streamed" /\ mime.limit = 0
    /\ mime.msg.entity = Nest(PlainToken, 6)
    /\ mime.stream.nonce = EmptyString /\ mime.stream.err = ""

\* the bytes that can sit, read from the source but not yet by the scanner,
\* in the buffers of bufio.NewReader and of the multipart reader
Readahead == 2 * bufioSize

\* C29: once the matcher has found a nonce its result never changes for the
\* rest of the stream (the first match in depth-first part order wins), and
\* whenever StreamExtractHeaderFromAndNonce returns without error the source
\* stream has been read to its end, for single-part and multipart messages
\* alike.
FirstNonceWinsAndSourceDrained ==
    (mime.pc = "streamed" /\ mime.stream.err = "") =>
        /\ mime.stream.nonce = FirstNonce(mime.stream.scanned)
        /\ mime.size <= mime.stream.pos + Readahead

\* a leaf whose encoded body cannot be decoded to its end
FailsToDecode(e) ==
    /\ e.kind = "leaf"
    /\ \/ e.cte = "base64" /\ DecodeBase64Std(FilterWhitespace(e.raw)).err # ""
       \/ e.cte = "quoted-printable" /\ DecodeQuotedPrintable(e.raw).err # ""

\* C30: when a base64 or quoted-printable leaf fails to decode, the stream
\* scanner returns no error for it, goes on with the remaining parts and
\* reports a valid nonce in a later part; the only error that ends the scan
\* is ErrMessageTooLarge, and only for a message longer than the limit.
DecodeFailureSkipsLeaf ==
    mime.pc = "streamed" =>
        /\ mime.stream.err \in {"", ErrMessageTooLarge}
        /\ mime.stream.err = ErrMessageTooLarge =>
               (mime.limit > 0 /\ mime.size > mime.limit)
        /\ (mime.limit = 0 /\ mime.msg.entity.kind = "multipart"
                           /\ Len(mime.msg.entity.parts) = 2
                           /\ FailsToDecode(mime.msg.entity.parts[1])) =>
               LET first  == mime.msg.entity.parts[1]
                   second == mime.msg.entity.parts[2]
               IN  /\ mime.stream.err = ""
                   /\ mime.stream.pos >= Len(MessageHeaderOf(mime.msg))
                                         + Len(BodyParts(mime.msg.entity.parts, 1))
                   /\ FirstNonce(LeafText(first)) = EmptyString =>
                          mime.stream.nonce = FirstNonce(LeafText(second))

\* the first part was base64 that cannot be decoded, the second part held a
\* nonce, and the nonce was reported
NonceAfterUndecodablePart ==
    /\ mime.pc = "streamed" /\ mime.limit = 0
    /\ mime.msg.entity.kind = "multipart"
    /\ mime.msg.entity.parts[1].cte = "base64"
    /\ FailsToDecode(mime.msg.entity.parts[1])
    /\ mime.msg.entity.parts[2] = PlainToken
    /\ mime.stream.nonce = Repeat("a", nonceHexLength)

(***************************************************************************)
(* Properties of SpecMime: the legacy parser against the stream scanner.   *)
(***************************************************************************)
\* every leaf of the entity decodes to its end
RECURSIVE WellEncoded(_)
WellEncoded(e) ==
    IF e.kind = "leaf" THEN ~FailsToDecode(e)
    ELSE \A i \in 1..Len(e.parts) : WellEncoded(e.parts[i])

\* C27: on well-formed messages the legacy path (ParseBody, then
\* FindNonceWithFallback on the split body) and the stream scanner return
\* the same nonce, or both none, and the same From header value.
LegacyAgreesWithStream ==
    (mime.pc = "parsed" /\ mime.limit = 0 /\ WellEncoded(mime.msg.entity)) =>
        /\ mime.legacy.nonce = mime.stream.nonce
        /\ mime.legacy.headerFrom = mime.stream.headerFrom

(***************************************************************************)
(* Properties of SpecExpiry: the expiry of an entry.                       *)
(***************************************************************************)
\* C31: a step of CheckAuth or CheckSigned (Get) leaves every entry that is
\* still present as it was, expiry included; the step in which StoreVerified writes the
\* record sets the auth entry's expiry to the time of the write plus
\* VerifiedTTL, whatever was left of AuthTTL; and the expiry of an entry that
\* stays present changes in no step but a SetEx of InitAuth or StoreVerified.
ExpiryFixedByLastSetEx ==
    [][ /\ (chk' # chk \/ http' # http) =>
            \A k \in Keys : cache'[k].present => cache'[k] = cache[k]
        /\ \A d \in Deliveries :
            (sess[d].pc = "store" /\ sess'[d].stored) =>
                /\ cache'[AuthKey(sess[d].authID)].present
                /\ cache'[AuthKey(sess[d].authID)].expiresAt = now + VerifiedTTLSeconds
        /\ \A k \in Keys :
            (cache[k].present /\ cache'[k].present
                /\ cache'[k].expiresAt # cache[k].expiresAt) =>
                \/ init' # init
                \/ \E d \in Deliveries : sess[d].pc = "store" /\ sess'[d].stored
      ]_vars

\* a verified record that expires before the pending entry would have, read
\* by a CheckAuth and by a CheckSigned that left it in place
VerifiedExpiryShorterThanPending ==
    \E r \in issued :
        LET e == cache[AuthKey(r.authID)]
        IN  /\ e.present /\ e.value.status = "verified"
            /\ e.expiresAt = accepted[r.authID].at + VerifiedTTLSeconds
            /\ e.expiresAt < r.authAt + AuthTTLSeconds
            /\ chk.pc = "done" /\ chk.authID = r.authID /\ chk.status = "verified"
            /\ http.pc = "done" /\ http.route = "CheckSigned"
            /\ http.id = AuthIDText(r.authID) /\ http.storeOps = 1

(***************************************************************************)
(* Properties of SpecPoll: the nonce entry and its auth entry.             *)
(***************************************************************************)
\* the nonce entry of n holds the auth_id of the InitAuth call that wrote it,
\* whose auth entry was written no later and is in the cache or, having
\* expired no later than the nonce entry does, has been removed
PointsToItsAuthEntry(n) ==
    LET e == cache[NonceKey(n)]
    IN  \E r \in issued :
            /\ r.nonce = n /\ e.value = PlainAuthID(r.authID)
            /\ r.authAt <= r.nonceAt
            /\ e.expiresAt = r.nonceAt + AuthTTLSeconds
            /\ \/ cache[AuthKey(r.authID)].present
               \/ /\ r.authAt + AuthTTLSeconds <= e.expiresAt
                  /\ r.authAt + AuthTTLSeconds <= now

\* C32: every nonce entry in the cache points to the auth entry its InitAuth
\* call wrote first, which exists or expired no later than the nonce entry
\* does; and a nonce entry appears only in the second SetEx of an InitAuth
\* call, for the auth_id whose entry that call has already written.
NonceEntryAfterItsAuthEntry ==
    [][ /\ \A n \in Nonces :
            cache'[NonceKey(n)].present => PointsToItsAuthEntry(n)'
        /\ \A n \in Nonces :
            (~cache[NonceKey(n)].present /\ cache'[NonceKey(n)].present) =>
                /\ init.pc = "nonce" /\ init.nonce = n /\ init.at <= now
                /\ cache'[NonceKey(n)].value = PlainAuthID(init.authID)
      ]_vars

\* a nonce entry still in the cache whose auth entry expired and was removed
\* by a CheckAuth
NonceEntryOutlivesAuthEntry ==
    \E r \in issued :
        /\ cache[NonceKey(r.nonce)].present
        /\ ~cache[AuthKey(r.authID)].present
        /\ chk.pc = "done" /\ chk.authID = r.authID /\ chk.status = "expired"

(***************************************************************************)
(* Properties of SpecFallback: the order of the four sources.              *)
(***************************************************************************)
\* the bytes a transfer decoding of the raw body yields, none if it fails
QuotedPrintableOf(body) ==
    IF DecodeQuotedPrintable(body).err = "" THEN DecodeQuotedPrintable(body).bytes
    ELSE EmptyString

Base64Of(body) ==
    LET digits == FilterWhitespace(body)
    IN  IF DecodeBase64Std(digits).err = "" THEN DecodeBase64Std(digits).bytes
        ELSE IF DecodeBase64Raw(digits).err = "" THEN DecodeBase64Raw(digits).bytes
        ELSE EmptyString

\* the four texts in the order they are tried
Sources(bodyText, body) ==
    <<bodyText, decodeASCII(body), decodeASCII(QuotedPrintableOf(body)),
      decodeASCII(Base64Of(body))>>

\* the sources that contain a token
WithToken(srcs) == {i \in 1..Len(srcs) : FirstNonce(srcs[i]) # EmptyString}

\* C33: FindNonceWithFallback returns the first token of the first of the
\* decoded text, the raw body as ASCII, the quoted-printable-decoded raw body
\* and the base64-decoded raw body that contains a valid token, and the empty
\* string when none of the four does.
FallbackTriesFourSourcesInOrder ==
    mime.pc = "fallback" =>
        LET srcs == Sources(mime.msg.bodyText, mime.msg.body)
            with == WithToken(srcs)
        IN  IF with = {} THEN mime.legacy.nonce = EmptyString
            ELSE mime.legacy.nonce =
                     FirstNonce(srcs[CHOOSE i \in with : \A j \in with : i <= j])

\* the nonce came from the base64 decoding of the raw body, the three
\* sources before it holding none
NonceFromBase64OfRawBody ==
    /\ mime.pc = "fallback"
    /\ WithToken(Sources(mime.msg.bodyText, mime.msg.body)) = {4}
    /\ mime.msg.bodyText # EmptyString
    /\ mime.legacy.nonce = Repeat("e", nonceHexLength)

(***************************************************************************)
(* Properties of SpecPoll: Get racing with StoreVerified.                  *)
(***************************************************************************)
\* C35: once StoreVerified has returned nil for an auth_id, its verified
\* record is in the cache until VerifiedTTL has elapsed since the write,
\* whatever CheckAuth calls run beside it, those that read the expired
\* pending entry before the write included.
VerifiedRecordSurvivesGet ==
    \A a \in AuthIds :
        (accepted[a].n > 0 /\ now < accepted[a].at + VerifiedTTLSeconds) =>
            /\ cache[AuthKey(a)].present
            /\ cache[AuthKey(a)].value.status = "verified"

(***************************************************************************)
(* Properties of SpecMonotone: the order of reported statuses.             *)
(***************************************************************************)
Follows(before, after) ==
    \/ before = ""
    \/ before = after
    \/ before = "waiting" /\ after \in {"verified", "expired"}
    \/ before = "verified" /\ after = "expired"

\* C36: the status CheckAuth reports for one auth id only moves forward:
\* waiting, then verified or expired, verified then expired, and nothing but
\* expired after expired.
ReportedStatusMonotonic ==
    [][\A a \in AuthIds : Follows(reported[a], reported'[a])]_vars

(***************************************************************************)
(* Properties of SpecFaults: what a 451 leaves behind.                     *)
(***************************************************************************)
\* C37: a delivery answered with 451 has left the nonce entry in place; in
\* particular no delivery whose StoreVerified failed has consumed the nonce
\* of a challenge whose record no delivery has verified.
Answered451KeepsNonce ==
    \A d \in Deliveries :
        (sess[d].pc = "done" /\ sess[d].reply = "451 Temporary server error") =>
            ~(/\ sess[d].ok
              /\ consumed[sess[d].nonce] > 0
              /\ ~CacheGet(cache, NonceKey(sess[d].nonce)).present
              /\ accepted[sess[d].authID].n = 0)

(***************************************************************************)
(* Properties of SpecCase: the case of the nonce's hex letters.            *)
(***************************************************************************)
\* the body FindNonceWithFallback was given holds nonce n in upper case
UpperCaseBody(n) ==
    /\ mime.pc = "fallback"
    /\ mime.msg.bodyText = smsBody(ToUpper(ShortNonceText(n)))
    /\ ToUpper(ShortNonceText(n)) # ShortNonceText(n)

\* C38: a delivery whose body carries an issued nonce with its hex letters
\* in upper case is matched by the scanner and by findNonce, and the nonce
\* lookup is made on the entry InitAuth wrote for the lower-case form.
UpperCaseNonceResolves ==
    [][\A n \in Nonces :
          (/\ UpperCaseBody(n)
           /\ \E r \in issued : r.nonce = n
           /\ sess[1].pc = "mail" /\ sess'[1].pc # "mail") =>
              /\ Scan(NewNonceScanner, mime.msg.body).found # EmptyString
              /\ mime.legacy.nonce # EmptyString
              /\ sess'[1].pc = "take"
              /\ sess'[1].nonce = n]_vars

\* the same delivery with the nonce as InitAuth wrote it goes on to the take
LowerCaseNonceTaken ==
    \E n \in Nonces :
        /\ mime.pc = "fallback"
        /\ mime.msg.bodyText = smsBody(ShortNonceText(n))
        /\ sess[1].pc = "take" /\ sess[1].nonce = n

(***************************************************************************)
(* Properties of SpecData: the verified record's phone and carrier.        *)
(***************************************************************************)
\* C39: every verified record the DATA handler has written holds a phone
\* that is not empty and is made of decimal digits only, and a carrier that
\* is SKT, KT or LGU+, whatever the envelope sender and the header From.
VerifiedRecordWellFormed ==
    \A a \in AuthIds :
        LET e == cache[AuthKey(a)]
        IN  (e.present /\ e.value.kind = "json" /\ e.value.status = "verified") =>
                /\ Len(e.value.phone) > 0
                /\ \A i \in 1..Len(e.value.phone) : e.value.phone[i] \in DigitChars
                /\ e.value.carrier \in {"SKT", "KT", "LGU+"}

(***************************************************************************)
(* Properties of SpecHeader: where the nonce is taken from.                *)
(***************************************************************************)
\* the message ParseBody was given holds a token in its header block and
\* none in its body
TokenInHeaderOnly ==
    /\ mime.pc = "parsed"
    /\ findNonce(decodeASCII(MessageHeaderOf(mime.msg))) # EmptyString
    /\ findNonce(decodeASCII(Body(mime.msg.entity))) = EmptyString

\* C40: a message whose body holds no nonce and whose header block holds
\* [MAPAE:<hex>] with an issued nonce is rejected with 550 Invalid nonce,
\* and the delivery does not go on to consume the nonce.
NonceOnlyFromBody ==
    [][(/\ TokenInHeaderOnly
        /\ \E r \in issued :
               findNonce(decodeASCII(MessageHeaderOf(mime.msg))) = ShortNonceText(r.nonce)
        /\ sess[1].pc = "mail" /\ sess'[1].pc # "mail") =>
           /\ sess'[1].pc = "done"
           /\ sess'[1].reply = "550 Invalid nonce"]_vars

(***************************************************************************)
(* Properties of SpecShutdown.                                             *)
(***************************************************************************)
\* the steps of main and of the SMTP goroutine, and DATA under the context
ShutdownStep ==
    /\ (proc.ctx = "live" /\ proc'.ctx = "cancelled") =>
           proc.signal # "" \/ proc'.http = "failed"
    /\ (proc.smtp = "listening" /\ proc'.smtp = "closed") => proc.ctx = "cancelled"
    /\ (proc.main # "shutdown" /\ proc'.main = "shutdown") =>
           /\ proc.ctx = "cancelled"
           /\ proc'.deadline = now + ShutdownTimeoutSeconds
    /\ (proc.main # "returned" /\ proc'.main = "returned") =>
           /\ proc.main = "shutdown"
           /\ now <= proc.deadline
           /\ proc.inflight = 0 \/ now = proc.deadline
           /\ proc'.http # "serving" /\ proc'.smtp # "listening"
    /\ (proc.ctx = "cancelled" /\ sess[1].pc = "mail" /\ sess'[1].pc # "mail") =>
           /\ sess'[1].pc = "done"
           /\ sess'[1].reply \in {"451 SPF temperror", "550 SPF fail"}
           /\ cache' = cache

====
